---- MODULE Spec2Model ----
(***************************************************************************)
(* Precision Guitar Tuner: the real-time audio pipeline of                 *)
(* PrecisionTuner::Layers::AudioProcessingLayer as a state machine.        *)
(*                                                                         *)
(* Threads: the UI thread (constructor, GetLatestPitch, device switching,  *)
(* keyboard handlers), the audio input thread (InputCallback /             *)
(* ProcessAudio) and the audio output thread (OutputCallback /             *)
(* MixFeedback).                                                           *)
(*                                                                         *)
(* Units: frequencies in Hz, confidences in percent, samples, gains and    *)
(* volumes in tenths (10 = 1.0), levels in hundredths (100 = 1.0).         *)
(***************************************************************************)
EXTENDS Integers, Sequences, FiniteSets, TLC

(***************************************************************************)
(* Bounds of the model                                                     *)
(***************************************************************************)
MaxBufferSize == 1   \* the configured buffer size, in frames
MaxCallbacks == 2    \* input callbacks explored after the stream started
MaxStale == 1        \* older relaxed stores a load may still observe
MaxStabSteps == 4    \* calls made on a stabilizer used on its own
MaxWindow == 4       \* the largest median window of such a stabilizer
MaxUiEvents == 4     \* UI events of the settings window that are remembered

(***************************************************************************)
(* Program constants                                                       *)
(***************************************************************************)
kuBufferSafetyMultiplier == 4
NoDevice == -1                  \* static_cast<uint32_t>(-1); ids are only compared
DefaultInputId == 0
kGainStep == 1                  \* 0.1f
kGainMax == 20                  \* 2.0f
kGainMin == 5                   \* 0.5f
kfTargetStringToleranceCents == 25
NoFrequency == -99999           \* 0.0f, the target of a string without a note

MaxInputLen == kuBufferSafetyMultiplier * MaxBufferSize + 1

Min(a, b) == IF a < b THEN a ELSE b
Max(a, b) == IF a > b THEN a ELSE b
Abs(x) == IF x < 0 THEN 0 - x ELSE x

StabilizerTypes == {"None", "EMA", "Median", "Hybrid"}

\* AudioProcessingLayerConfig with the header's defaults; the buffer size is
\* scaled down to MaxBufferSize and the median window to 2.
DefaultLayerConfig ==
    [sampleRate |-> 48000, bufferSize |-> MaxBufferSize, minFrequency |-> 80,
     maxFrequency |-> 1200, stabilizerType |-> "Hybrid", emaAlpha |-> 30,
     medianWindowSize |-> 2]

ValidConfigs == {[DefaultLayerConfig EXCEPT !.stabilizerType = t] : t \in StabilizerTypes}

InvalidConfigs ==
    {[DefaultLayerConfig EXCEPT !.stabilizerType = "None", !.bufferSize = 0],
     [DefaultLayerConfig EXCEPT !.stabilizerType = "None", !.sampleRate = 0],
     [DefaultLayerConfig EXCEPT !.stabilizerType = "None", !.minFrequency = 1200,
                                !.maxFrequency = 80],
     [DefaultLayerConfig EXCEPT !.stabilizerType = "Median", !.medianWindowSize = 0]}

\* The configurations the spec calls valid (section 7, InvalidConfiguration).
IsValidConfig(c) ==
    /\ c.minFrequency < c.maxFrequency
    /\ c.sampleRate > 0
    /\ c.bufferSize > 0
    /\ c.medianWindowSize > 0

(***************************************************************************)
(* Detector outputs: HybridPitchDetector::Detect is an external library;   *)
(* per frame it yields no pitch or one PitchResult.                        *)
(***************************************************************************)
NoPitch == [detected |-> FALSE, frequency |-> 0, confidence |-> 0]
PitchResult(f, c) == [detected |-> TRUE, frequency |-> f, confidence |-> c]
DetectorOutputs == {NoPitch, PitchResult(110, 90), PitchResult(440, 60)}
CoarseDetectorOutputs == {NoPitch, PitchResult(110, 90)}

Samples == {-10, 5}
ConstantBuffer(n, s) == [i \in 1..n |-> s]
\* buffers of the configured size (and the empty buffer)
FrameBuffers == {ConstantBuffer(n, 5) : n \in {0, MaxBufferSize}}
\* the same with samples at full scale and at half scale
LevelBuffers == {ConstantBuffer(n, s) : n \in {0, MaxBufferSize}, s \in Samples}
\* buffers of any length up to one more than the safety capacity
InputBuffers == {ConstantBuffer(n, 5) : n \in 0..MaxInputLen}

(***************************************************************************)
(* GuitarDSP::PitchStabilizer family (external library), from section 3    *)
(* and 4.3 of the specification.  A stabilizer is a record; alpha is in    *)
(* percent.                                                                *)
(***************************************************************************)
NullStabilizer == [type |-> "None"]

NewStabilizer(type, alpha, windowSize) ==
    [type |-> type, alpha |-> alpha, windowSize |-> windowSize,
     initialized |-> FALSE, frequency |-> 0, confidence |-> 0, window |-> <<>>]

RECURSIVE InsertSorted(_, _)
InsertSorted(sorted, r) ==
    IF sorted = <<>> THEN <<r>>
    ELSE IF r.frequency <= Head(sorted).frequency THEN <<r>> \o sorted
    ELSE <<Head(sorted)>> \o InsertSorted(Tail(sorted), r)

RECURSIVE SortByFrequency(_)
SortByFrequency(w) ==
    IF w = <<>> THEN <<>> ELSE InsertSorted(SortByFrequency(Tail(w)), Head(w))

\* a variant that takes the middle of the window in arrival order
WindowMiddleUnsorted(w) ==
    IF w = <<>> THEN [frequency |-> 0, confidence |-> 0]
    ELSE LET n == Len(w)
         IN IF n % 2 = 1
            THEN [frequency |-> w[(n + 1) \div 2].frequency,
                  confidence |-> w[(n + 1) \div 2].confidence]
            ELSE [frequency |-> (w[n \div 2].frequency + w[n \div 2 + 1].frequency) \div 2,
                  confidence |-> (w[n \div 2].confidence + w[n \div 2 + 1].confidence) \div 2]

\* median of a window: the middle element, or the average of the two middle ones
WindowMedian(w) ==
    IF w = <<>> THEN [frequency |-> 0, confidence |-> 0]
    ELSE LET s == SortByFrequency(w)
             n == Len(s)
         IN IF n % 2 = 1
            THEN [frequency |-> s[(n + 1) \div 2].frequency,
                  confidence |-> s[(n + 1) \div 2].confidence]
            ELSE [frequency |-> (s[n \div 2].frequency + s[n \div 2 + 1].frequency) \div 2,
                  confidence |-> (s[n \div 2].confidence + s[n \div 2 + 1].confidence) \div 2]

\* a variant of the window that drops the newest sample once it is full
PushWindowKeepingOldest(w, r, windowSize) ==
    IF Len(w) >= windowSize THEN w
    ELSE Append(w, [frequency |-> r.frequency, confidence |-> r.confidence])

\* FIFO window of the last windowSize samples, oldest evicted first
PushWindow(w, r, windowSize) ==
    LET a == Append(w, [frequency |-> r.frequency, confidence |-> r.confidence])
    IN IF Len(a) > windowSize
       THEN SubSeq(a, Len(a) - windowSize + 1, Len(a))
       ELSE a

\* a variant of the blend that overshoots the new value
BlendOvershooting(old, new, alpha) == (old * (100 - alpha) + new * alpha) \div 100 + new \div 10

Blend(old, new, alpha) == (old * (100 - alpha) + new * alpha) \div 100

\* a variant whose first sample is blended into the zero state
StabilizerUpdateWithoutBootstrap(st, raw) ==
    CASE st.type = "EMA" ->
           [st EXCEPT !.initialized = TRUE,
                      !.frequency = Blend(st.frequency, raw.frequency, st.alpha),
                      !.confidence = Blend(st.confidence, raw.confidence, st.alpha)]
      [] st.type = "Median" ->
           [st EXCEPT !.initialized = TRUE,
                      !.window = PushWindow(st.window, raw, st.windowSize)]
      [] st.type = "Hybrid" ->
           LET w == PushWindow(st.window, raw, st.windowSize)
               med == WindowMedian(w)
               a == (st.alpha * raw.confidence) \div 100
           IN [st EXCEPT !.initialized = TRUE, !.window = w,
                         !.frequency = Blend(st.frequency, med.frequency, a),
                         !.confidence = Blend(st.confidence, raw.confidence, a)]
      [] OTHER -> st

StabilizerUpdate(st, raw) ==
    CASE st.type = "EMA" ->
           IF ~st.initialized
           THEN [st EXCEPT !.initialized = TRUE, !.frequency = raw.frequency,
                           !.confidence = raw.confidence]
           ELSE [st EXCEPT !.frequency = Blend(st.frequency, raw.frequency, st.alpha),
                           !.confidence = Blend(st.confidence, raw.confidence, st.alpha)]
      [] st.type = "Median" ->
           [st EXCEPT !.initialized = TRUE,
                      !.window = PushWindow(st.window, raw, st.windowSize)]
      [] st.type = "Hybrid" ->
           LET w == PushWindow(st.window, raw, st.windowSize)
               med == WindowMedian(w)
               a == (st.alpha * raw.confidence) \div 100
           IN IF ~st.initialized
              THEN [st EXCEPT !.initialized = TRUE, !.window = w,
                              !.frequency = med.frequency,
                              !.confidence = raw.confidence]
              ELSE [st EXCEPT !.window = w,
                              !.frequency = Blend(st.frequency, med.frequency, a),
                              !.confidence = Blend(st.confidence, raw.confidence, a)]
      [] OTHER -> st

GetStabilized(st) ==
    CASE st.type = "Median" -> WindowMedian(st.window)
      [] st.type \in {"EMA", "Hybrid"} ->
           [frequency |-> st.frequency, confidence |-> st.confidence]
      [] OTHER -> [frequency |-> 0, confidence |-> 0]

\* a variant of Reset that keeps the history
StabilizerResetKeepingHistory(st) == [st EXCEPT !.frequency = 0, !.confidence = 0]

\* Reset clears the running pair, the initialized flag and the window
StabilizerReset(st) ==
    [st EXCEPT !.initialized = FALSE, !.frequency = 0, !.confidence = 0,
               !.window = <<>>]

(***************************************************************************)
(* TuningPresets.  A frequency is given by its pitch: cents above (below,  *)
(* when negative) 440 Hz, so that FrequencyToCents, 1200 log2(f / target), *)
(* is the difference of two pitches.  A reference pitch is likewise the    *)
(* offset of A4 from 440 Hz in cents (430 Hz = -40, 450 Hz = 39).          *)
(***************************************************************************)
TuningModes == <<"Chromatic", "Standard", "DropD", "DropC", "DADGAD", "OpenG", "OpenD">>

NoNotes == [i \in 1..6 |-> ""]
NoOctaves == [i \in 1..6 |-> 0]
GuitarOctaves == <<2, 2, 3, 3, 3, 4>>

presetDefinitions ==
    [Chromatic |-> [name |-> "Chromatic", noteNames |-> NoNotes, octaves |-> NoOctaves],
     Standard |-> [name |-> "Standard (EADGBE)",
                   noteNames |-> <<"E", "A", "D", "G", "B", "E">>, octaves |-> GuitarOctaves],
     DropD |-> [name |-> "Drop D",
                noteNames |-> <<"D", "A", "D", "G", "B", "E">>, octaves |-> GuitarOctaves],
     DropC |-> [name |-> "Drop C",
                noteNames |-> <<"C", "G", "C", "F", "A", "D">>, octaves |-> GuitarOctaves],
     DADGAD |-> [name |-> "DADGAD",
                 noteNames |-> <<"D", "A", "D", "G", "A", "D">>, octaves |-> GuitarOctaves],
     OpenG |-> [name |-> "Open G",
                noteNames |-> <<"D", "G", "D", "G", "B", "D">>, octaves |-> GuitarOctaves],
     OpenD |-> [name |-> "Open D",
                noteNames |-> <<"D", "A", "D", "F#", "A", "D">>, octaves |-> GuitarOctaves]]

\* semitones of a note name above C
PitchClass(noteName) ==
    CASE noteName = "C" -> 0 [] noteName = "C#" -> 1 [] noteName = "D" -> 2
      [] noteName = "D#" -> 3 [] noteName = "E" -> 4 [] noteName = "F" -> 5
      [] noteName = "F#" -> 6 [] noteName = "G" -> 7 [] noteName = "G#" -> 8
      [] noteName = "A" -> 9 [] noteName = "A#" -> 10 [] noteName = "B" -> 11

\* equal temperament: referencePitch * 2^((midi - 69) / 12), midi = 12 (octave + 1) + class
NoteToFrequency(noteName, octave, referencePitch) ==
    referencePitch + 100 * (12 * (octave + 1) + PitchClass(noteName) - 69)

FrequencyToCents(frequency, target) == frequency - target

CalculatePreset(definition, referencePitch) ==
    [name |-> definition.name,
     targetFrequencies |->
        [i \in 1..6 |->
            IF definition.noteNames[i] # ""
            THEN NoteToFrequency(definition.noteNames[i], definition.octaves[i],
                                 referencePitch)
            ELSE NoFrequency],
     noteNames |->
        [i \in 1..6 |->
            IF definition.noteNames[i] # ""
            THEN definition.noteNames[i] \o ToString(definition.octaves[i])
            ELSE ""]]

GetPreset(mode, referencePitch) == CalculatePreset(presetDefinitions[mode], referencePitch)

Nullopt == [hasValue |-> FALSE]
Some(v) == [hasValue |-> TRUE, value |-> v]

\* a variant of the search that accepts a deviation equal to the bound
RECURSIVE ClosestFromInclusive(_, _, _, _, _)
ClosestFromInclusive(i, targetFrequencies, frequency, closestIndex, minCentsDiff) ==
    IF i >= 6 THEN closestIndex
    ELSE LET centsDiff == Abs(FrequencyToCents(frequency, targetFrequencies[i + 1]))
         IN IF centsDiff <= minCentsDiff
            THEN ClosestFromInclusive(i + 1, targetFrequencies, frequency, i, centsDiff)
            ELSE ClosestFromInclusive(i + 1, targetFrequencies, frequency, closestIndex,
                                      minCentsDiff)

\* the loop of FindClosestString from string i on (array indices are i + 1)
RECURSIVE ClosestFrom(_, _, _, _, _)
ClosestFrom(i, targetFrequencies, frequency, closestIndex, minCentsDiff) ==
    IF i >= 6 THEN closestIndex
    ELSE LET centsDiff == Abs(FrequencyToCents(frequency, targetFrequencies[i + 1]))
         IN IF centsDiff < minCentsDiff
            THEN ClosestFrom(i + 1, targetFrequencies, frequency, i, centsDiff)
            ELSE ClosestFrom(i + 1, targetFrequencies, frequency, closestIndex,
                             minCentsDiff)

FindClosestString(mode, frequency, referencePitch, toleranceCents) ==
    IF mode = "Chromatic" THEN Nullopt
    ELSE LET preset == GetPreset(mode, referencePitch)
             closestIndex == ClosestFrom(0, preset.targetFrequencies, frequency, -1,
                                         toleranceCents)
         IN IF closestIndex >= 0 THEN Some(closestIndex) ELSE Nullopt

GetStringName(stringIndex, tuningMode, referencePitch) ==
    IF stringIndex < 0 \/ stringIndex > 5 THEN "Unknown String"
    ELSE LET preset == GetPreset(tuningMode, referencePitch)
             displayNumber == 6 - stringIndex
             noteName == preset.noteNames[stringIndex + 1]
             suffix == IF displayNumber = 1 THEN "st"
                       ELSE IF displayNumber = 2 THEN "nd"
                       ELSE IF displayNumber = 3 THEN "rd"
                       ELSE "th"
         IN IF noteName = ""
            THEN ToString(displayNumber) \o "th String"
            ELSE ToString(displayNumber) \o suffix \o " String (" \o noteName \o ")"

(***************************************************************************)
(* State                                                                   *)
(***************************************************************************)
VARIABLES
    config,                 \* AudioProcessingLayer::config
    inputDevice,            \* [isOpen, isRunning] of the input AudioDevice
    outputDevice,           \* [isOpen, isRunning] of the output AudioDevice
    pitchStabilizer,        \* NullStabilizer (nullptr) or a stabilizer
    latestFrequency,        \* std::atomic<float>, newest value stored
    latestConfidence,       \* std::atomic<float>, newest value stored
    pitchDetected,          \* std::atomic<bool>, newest value stored
    stale,                  \* per published atomic: older stores the UI thread
                            \* has not yet been forced to see (oldest first)
    processingBuffer,       \* std::vector<float>
    outputScratchBuffer,    \* std::vector<float>
    bufferOverflow,         \* overflow latch polled by CheckBufferOverflow
    currentInputLevel,
    currentInputDeviceId,
    currentOutputDeviceId,
    outputChannels,
    monitoringRingBuffer,
    monitoringWritePos,
    monitoringReadPos,
    beepEnabled, beepVolume, referenceEnabled, referenceVolume,
    referenceFrequency, inputMonitoringEnabled, monitoringVolume, inputGain,
    droneEnabled, polyphonicEnabled,
    beepGenerator, referenceGenerator, polyphonicGenerator,
    appAudio,               \* PrecisionGuitarTunerApp::config.audio
    uiPc,                   \* position of the UI thread
    data,                   \* GetLatestPitch's PitchData being filled
    pendingLoads,           \* GetLatestPitch's loads not yet performed
    overflowResult,         \* last value returned by CheckBufferOverflow
    switchResult,           \* last value returned by SwitchInputDevice
    audioPc,                \* position of the audio input thread
    frameLen,               \* size of gainedBuffer in the running callback
    result,                 \* ProcessAudio's result (optional<PitchResult>)
    stabilized,             \* ProcessAudio's local stabilized
    callbackResult,         \* last value returned by InputCallback
    callbacks,              \* input callbacks started so far
    outputBuffer,           \* what the last OutputCallback rendered
    lastWritten,            \* history: values stored by the last detected frame
    updateCalls,            \* history: Update calls made for the running frame
    oversized,              \* history: an oversized callback since the last poll
    stab,                   \* a PitchStabilizer used on its own
    fresh,                  \* a second instance, constructed at each Reset of stab
    fed,                    \* history: raw samples stab received since its Reset
    stabSteps,              \* calls made on stab so far
    rawSeen,                \* history: raw frequencies the detector has produced
    tuningCall,             \* the last call of a TuningPresets function and its result
    file,                   \* what is stored at the configuration path
    savedConfig,            \* history: the Config whose Save wrote the file, if one did
    loaded,                 \* the result of a Config::Load of the file as it is
    appStarted,             \* the application constructor has applied its configuration
    mixing,                 \* the output thread's position inside OutputCallback
    appTuning,              \* config.tuning of the application: mode and reference pitch
    ringLog,                \* how many samples the input callback wrote to the ring and
                            \* which of them, by number, the output callback mixed
    settings                \* the settings window: both visibility flags, whether the
                            \* last frame drew it, and the UI events so far

deviceVars == <<inputDevice, outputDevice, currentInputDeviceId,
                currentOutputDeviceId, outputChannels>>
publishVars == <<latestFrequency, latestConfidence, pitchDetected>>
bufferVars == <<processingBuffer, bufferOverflow, currentInputLevel, oversized>>
ringVars == <<monitoringRingBuffer, monitoringWritePos, monitoringReadPos>>
feedbackVars == <<beepEnabled, beepVolume, referenceEnabled, referenceVolume,
                  referenceFrequency, inputMonitoringEnabled, monitoringVolume,
                  inputGain, droneEnabled, polyphonicEnabled, beepGenerator,
                  referenceGenerator>>
uiVars == <<uiPc, data, pendingLoads, overflowResult, switchResult>>
audioVars == <<audioPc, frameLen, result, stabilized, callbackResult, callbacks,
               lastWritten, updateCalls>>

stabVars == <<stab, fresh, fed, stabSteps>>
\* state outside the layer's members: objects used on their own and history
fileVars == <<file, savedConfig, loaded>>
toolVars == <<stabVars, tuningCall, fileVars>>
shellVars == <<mixing, appTuning, ringLog, settings>>
libVars == <<toolVars, rawSeen, appStarted, shellVars>>

layerVars == <<config, pitchStabilizer, stale, polyphonicGenerator, appAudio,
               outputBuffer, outputScratchBuffer, deviceVars, publishVars, bufferVars,
               ringVars, feedbackVars, uiVars, audioVars>>

vars == <<libVars, layerVars>>

Zeros(n) == [i \in 1..n |-> 0]

\* struct AudioConfig with its member initialisers
DefaultAudioConfig ==
    [enableBeep |-> FALSE, beepVolume |-> 5, enableReference |-> FALSE,
     referenceVolume |-> 5, referenceFrequency |-> 440,
     enableInputMonitoring |-> FALSE, monitoringVolume |-> 5, inputGain |-> 10,
     enableDroneMode |-> FALSE, enablePolyphonicMode |-> FALSE]

\* struct PitchData with its member initialisers
DefaultPitchData == [frequency |-> 0, confidence |-> 0, detected |-> FALSE]

PublishedFields == {"detected", "frequency", "confidence"}

\* The layer before its constructor body runs: the member initialiser list.
InitWith(configs) ==
    /\ config \in configs
    /\ inputDevice = [isOpen |-> FALSE, isRunning |-> FALSE]
    /\ outputDevice = [isOpen |-> FALSE, isRunning |-> FALSE]
    /\ pitchStabilizer = NullStabilizer
    /\ latestFrequency = 0
    /\ latestConfidence = 0
    /\ pitchDetected = FALSE
    /\ stale = [f \in PublishedFields |-> <<>>]
    /\ processingBuffer = <<>>
    /\ outputScratchBuffer = <<>>
    /\ bufferOverflow = FALSE
    /\ currentInputLevel = 0
    /\ currentInputDeviceId = NoDevice
    /\ currentOutputDeviceId = NoDevice
    /\ outputChannels = 1
    /\ monitoringRingBuffer = <<>>
    /\ monitoringWritePos = 0
    /\ monitoringReadPos = 0
    /\ beepEnabled = FALSE
    /\ beepVolume = 5
    /\ referenceEnabled = FALSE
    /\ referenceVolume = 5
    /\ referenceFrequency = 440
    /\ inputMonitoringEnabled = FALSE
    /\ monitoringVolume = 5
    /\ inputGain = 10
    /\ droneEnabled = FALSE
    /\ polyphonicEnabled = FALSE
    /\ beepGenerator = [frequency |-> 0]
    /\ referenceGenerator = [frequency |-> 0, amplitude |-> 0]
    /\ polyphonicGenerator = [frequencies |-> Zeros(6), volume |-> 0]
    /\ appAudio = DefaultAudioConfig
    /\ uiPc = "construct"
    /\ data = DefaultPitchData
    /\ pendingLoads = {}
    /\ overflowResult = FALSE
    /\ switchResult = FALSE
    /\ audioPc = "idle"
    /\ frameLen = 0
    /\ result = NoPitch
    /\ stabilized = [frequency |-> 0, confidence |-> 0]
    /\ callbackResult = 0
    /\ callbacks = 0
    /\ outputBuffer = <<>>
    /\ lastWritten = [frequency |-> 0, confidence |-> 0]
    /\ updateCalls = 0
    /\ oversized = FALSE
    /\ stab = NullStabilizer
    /\ fresh = NullStabilizer
    /\ fed = <<>>
    /\ stabSteps = 0
    /\ rawSeen = {}
    /\ tuningCall = [function |-> "none"]
    /\ file = [kind |-> "missing"]
    /\ savedConfig = [saved |-> FALSE]
    /\ loaded = [called |-> FALSE]
    /\ appStarted = FALSE
    /\ mixing = [active |-> FALSE, source |-> "none", raced |-> FALSE]
    /\ appTuning = [mode |-> "Chromatic", referencePitch |-> 0]
    /\ ringLog = [written |-> 0, mixed |-> <<>>]
    /\ settings = [showSettings |-> TRUE, showSettingsPanel |-> TRUE, drawn |-> FALSE,
                   rendered |-> FALSE, events |-> <<>>]

Init == InitWith(ValidConfigs \cup InvalidConfigs)

(***************************************************************************)
(* MockAudioDevice: the device operations as the test double implements    *)
(* them.  Each returns the device after the call; the result of Open and   *)
(* Start is the caller-chosen openResult / startResult.                    *)
(***************************************************************************)
DeviceOpen(dev) == [dev EXCEPT !.isOpen = TRUE]
DeviceStart(dev) == IF dev.isOpen THEN [dev EXCEPT !.isRunning = TRUE] ELSE dev
DeviceStartResult(dev, startResult) == dev.isOpen /\ startResult
DeviceStop(dev) == [dev EXCEPT !.isRunning = FALSE]
DeviceClose(dev) == [isOpen |-> FALSE, isRunning |-> FALSE]

(***************************************************************************)
(* Constructor, UI thread.                                                 *)
(***************************************************************************)
\* Lines 21-70: buffers are sized, the default input device is opened and its
\* stream started; the constructor returns early when either fails.
Construct(openResult, startResult) ==
    /\ uiPc = "construct"
    /\ processingBuffer' = Zeros(config.bufferSize)
    /\ outputScratchBuffer' = Zeros(config.bufferSize)
    /\ monitoringRingBuffer' = Zeros(config.bufferSize * 4)
    /\ currentInputDeviceId' = DefaultInputId
    /\ LET opened == DeviceOpen(inputDevice)
           started == DeviceStart(opened)
       IN IF ~openResult
          THEN /\ inputDevice' = opened
               /\ uiPc' = "ready"
          ELSE IF ~DeviceStartResult(opened, startResult)
          THEN /\ inputDevice' = started
               /\ uiPc' = "ready"
          ELSE /\ inputDevice' = started
               /\ uiPc' = "outputSetup"
    /\ UNCHANGED <<libVars, config, pitchStabilizer, stale, polyphonicGenerator, appAudio,
                   outputBuffer, outputDevice, currentOutputDeviceId,
                   outputChannels, publishVars, bufferOverflow, currentInputLevel,
                   oversized, monitoringWritePos, monitoringReadPos, feedbackVars,
                   data, pendingLoads, overflowResult, switchResult, audioVars>>

\* Lines 87-149: the loop over the enumerated output devices.  Yields the
\* output device after the loop, whether one was opened, its id and the
\* channel count left in outputChannels.
RECURSIVE TryOutputDevices(_, _, _, _, _, _)
TryOutputDevices(devices, dev, ch, openResult, retryResult, startResult) ==
    IF devices = <<>>
    THEN [device |-> dev, opened |-> FALSE, id |-> NoDevice, channels |-> ch]
    ELSE LET d == Head(devices)
             channels == IF d.maxOutputChannels >= 2 THEN 2 ELSE 1
             o1 == DeviceOpen(dev)
         IN IF openResult
            THEN IF DeviceStartResult(o1, startResult)
                 THEN [device |-> DeviceStart(o1), opened |-> TRUE, id |-> d.id,
                       channels |-> channels]
                 ELSE TryOutputDevices(Tail(devices), DeviceClose(DeviceStart(o1)),
                                       channels, openResult, retryResult, startResult)
            ELSE IF channels > 1
                 THEN IF retryResult
                      THEN IF DeviceStartResult(o1, startResult)
                           THEN [device |-> DeviceStart(o1), opened |-> TRUE,
                                 id |-> d.id, channels |-> 1]
                           ELSE TryOutputDevices(Tail(devices),
                                                 DeviceClose(DeviceStart(o1)), 1,
                                                 openResult, retryResult, startResult)
                      ELSE TryOutputDevices(Tail(devices), o1, 1, openResult,
                                            retryResult, startResult)
                 ELSE TryOutputDevices(Tail(devices), o1, channels, openResult,
                                       retryResult, startResult)

OutputDeviceLists ==
    {<<>>, <<[id |-> 1, maxOutputChannels |-> 1]>>, <<[id |-> 1, maxOutputChannels |-> 2]>>}

\* Lines 74-163: output device set-up, up to the call of the warm-up Detect.
CtorOutputSetup(devices, openResult, retryResult, startResult) ==
    /\ uiPc = "outputSetup"
    /\ LET r == TryOutputDevices(devices, outputDevice, outputChannels, openResult,
                                 retryResult, startResult)
       IN /\ outputDevice' = r.device
          /\ outputChannels' = r.channels
          /\ currentOutputDeviceId' = IF r.opened THEN r.id ELSE NoDevice
    /\ uiPc' = "warmupDetect"
    /\ UNCHANGED <<libVars, config, pitchStabilizer, stale, polyphonicGenerator, appAudio,
                   outputBuffer, outputScratchBuffer, inputDevice,
                   currentInputDeviceId, publishVars, bufferVars, ringVars,
                   feedbackVars, data, pendingLoads, overflowResult, switchResult, audioVars>>

\* Line 163: the warm-up pitchDetector->Detect(dummyBuffer) returns.  While
\* uiPc = "warmupDetect" the UI thread is inside Detect.
CtorWarmupDetect ==
    /\ uiPc = "warmupDetect"
    /\ uiPc' = "stabilizerInit"
    /\ UNCHANGED <<libVars, config, pitchStabilizer, stale, polyphonicGenerator, appAudio,
                   outputBuffer, outputScratchBuffer, deviceVars, publishVars,
                   bufferVars, ringVars, feedbackVars, data, pendingLoads,
                   overflowResult, switchResult, audioVars>>

\* Lines 166-192: the switch that constructs the configured stabilizer.
ConfiguredStabilizer(c) ==
    CASE c.stabilizerType = "EMA" -> NewStabilizer("EMA", c.emaAlpha, 0)
      [] c.stabilizerType = "Median" -> NewStabilizer("Median", 0, c.medianWindowSize)
      [] c.stabilizerType = "Hybrid" ->
           NewStabilizer("Hybrid", c.emaAlpha, c.medianWindowSize)
      [] OTHER -> NullStabilizer

CtorStabilizerInit ==
    /\ uiPc = "stabilizerInit"
    /\ pitchStabilizer' = ConfiguredStabilizer(config)
    /\ uiPc' = "ready"
    /\ UNCHANGED <<libVars, config, stale, polyphonicGenerator, appAudio, outputBuffer,
                   outputScratchBuffer, deviceVars, publishVars, bufferVars,
                   ringVars, feedbackVars, data, pendingLoads, overflowResult,
                   switchResult, audioVars>>

(***************************************************************************)
(* Audio input thread: InputCallback and ProcessAudio.                     *)
(***************************************************************************)
\* Lines 299-307: the processing buffer grows when the input is longer, then
\* receives the gained samples (hundredths).
GainInto(buffer, inputBuffer, gain) ==
    LET n == Len(inputBuffer)
        sized == IF Len(buffer) < n THEN buffer \o Zeros(n - Len(buffer)) ELSE buffer
    IN [i \in 1..Len(sized) |-> IF i <= n THEN inputBuffer[i] * gain ELSE sized[i]]

\* A latch that compares against the configured size instead of the capacity.
OverflowLatchAtBufferSize(latch, n, bufferSize) ==
    latch \/ n > bufferSize

\* The overflow latch of the layer the tests exercise (DetectsBufferOverflow):
\* set by a callback that delivers more than the pre-sized capacity.
OverflowLatch(latch, n, bufferSize) ==
    latch \/ n > bufferSize * kuBufferSafetyMultiplier

\* Lines 285-309: entry check, gain stage; ends with the call of ProcessAudio,
\* whose first statement is Detect (audioPc = "detect": inside Detect).
InputCallbackBegin(inputBuffer) ==
    /\ audioPc = "idle"
    /\ inputDevice.isRunning
    /\ callbacks < MaxCallbacks
    /\ callbacks' = callbacks + 1
    /\ IF inputBuffer = <<>>
       THEN /\ callbackResult' = 1
            /\ UNCHANGED <<audioPc, frameLen, updateCalls, processingBuffer,
                           bufferOverflow, oversized>>
       ELSE /\ processingBuffer' = GainInto(processingBuffer, inputBuffer, inputGain)
            /\ bufferOverflow' = OverflowLatch(bufferOverflow, Len(inputBuffer),
                                               config.bufferSize)
            /\ oversized' = (oversized \/ Len(inputBuffer) > 4 * config.bufferSize)
            /\ frameLen' = Len(inputBuffer)
            /\ updateCalls' = 0
            /\ audioPc' = "detect"
            /\ UNCHANGED callbackResult
    /\ UNCHANGED <<libVars, config, pitchStabilizer, stale, polyphonicGenerator, appAudio,
                   outputBuffer, outputScratchBuffer, deviceVars, publishVars,
                   currentInputLevel, ringVars, feedbackVars, uiVars, result,
                   stabilized, lastWritten>>

\* Line 363: Detect returns.
ProcessAudioDetect(r) ==
    /\ audioPc = "detect"
    /\ result' = r
    /\ audioPc' = IF r.detected THEN "stabilize" ELSE "storeNotDetected"
    /\ rawSeen' = IF r.detected THEN rawSeen \cup {r.frequency} ELSE rawSeen
    /\ UNCHANGED <<toolVars, appStarted, shellVars, config, pitchStabilizer, stale, polyphonicGenerator, appAudio,
                   outputBuffer, outputScratchBuffer, deviceVars, publishVars,
                   bufferVars, ringVars, feedbackVars, uiVars, frameLen,
                   stabilized, callbackResult, callbacks, lastWritten, updateCalls>>

\* Lines 367-374: the stabilizer, when there is one, is updated and read.
ProcessAudioStabilize ==
    /\ audioPc = "stabilize"
    /\ IF pitchStabilizer # NullStabilizer
       THEN /\ pitchStabilizer' = StabilizerUpdate(pitchStabilizer, result)
            /\ stabilized' = GetStabilized(pitchStabilizer')
            /\ updateCalls' = updateCalls + 1
       ELSE /\ stabilized' = [frequency |-> result.frequency,
                              confidence |-> result.confidence]
            /\ UNCHANGED <<pitchStabilizer, updateCalls>>
    /\ audioPc' = "storeFrequency"
    /\ UNCHANGED <<libVars, config, stale, polyphonicGenerator, appAudio, outputBuffer,
                   outputScratchBuffer, deviceVars, publishVars, bufferVars,
                   ringVars, feedbackVars, uiVars, frameLen, result,
                   callbackResult, callbacks, lastWritten>>

\* A relaxed store leaves the previous value observable for a while.
Remember(older, v) ==
    LET a == Append(older, v)
    IN IF Len(a) > MaxStale THEN SubSeq(a, Len(a) - MaxStale + 1, Len(a)) ELSE a

\* Line 376
StoreFrequency ==
    /\ audioPc = "storeFrequency"
    /\ latestFrequency' = stabilized.frequency
    /\ stale' = [stale EXCEPT !.frequency = Remember(@, latestFrequency)]
    /\ lastWritten' = [lastWritten EXCEPT !.frequency = stabilized.frequency]
    /\ audioPc' = "storeConfidence"
    /\ UNCHANGED <<libVars, config, pitchStabilizer, polyphonicGenerator, appAudio,
                   outputBuffer, outputScratchBuffer, deviceVars, latestConfidence,
                   pitchDetected, bufferVars, ringVars, feedbackVars, uiVars,
                   frameLen, result, stabilized, callbackResult, callbacks,
                   updateCalls>>

\* Line 377
StoreConfidence ==
    /\ audioPc = "storeConfidence"
    /\ latestConfidence' = stabilized.confidence
    /\ stale' = [stale EXCEPT !.confidence = Remember(@, latestConfidence)]
    /\ lastWritten' = [lastWritten EXCEPT !.confidence = stabilized.confidence]
    /\ audioPc' = "storeDetected"
    /\ UNCHANGED <<libVars, config, pitchStabilizer, polyphonicGenerator, appAudio,
                   outputBuffer, outputScratchBuffer, deviceVars, latestFrequency,
                   pitchDetected, bufferVars, ringVars, feedbackVars, uiVars,
                   frameLen, result, stabilized, callbackResult, callbacks,
                   updateCalls>>

\* Line 378
StoreDetected ==
    /\ audioPc = "storeDetected"
    /\ pitchDetected' = TRUE
    /\ stale' = [stale EXCEPT !.detected = Remember(@, pitchDetected)]
    /\ audioPc' = "finish"
    /\ UNCHANGED <<libVars, config, pitchStabilizer, polyphonicGenerator, appAudio,
                   outputBuffer, outputScratchBuffer, deviceVars, latestFrequency,
                   latestConfidence, bufferVars, ringVars, feedbackVars, uiVars,
                   frameLen, result, stabilized, callbackResult, callbacks,
                   lastWritten, updateCalls>>

\* A no-pitch branch that also resets the published values.
StoreNotDetectedClearing ==
    /\ audioPc = "storeNotDetected"
    /\ pitchDetected' = FALSE
    /\ latestFrequency' = 0
    /\ latestConfidence' = 0
    /\ stale' = [stale EXCEPT !.detected = Remember(@, pitchDetected)]
    /\ audioPc' = "finish"
    /\ UNCHANGED <<libVars, config, pitchStabilizer, polyphonicGenerator, appAudio,
                   outputBuffer, outputScratchBuffer, deviceVars, bufferVars,
                   ringVars, feedbackVars, uiVars, frameLen, result, stabilized,
                   callbackResult, callbacks, lastWritten, updateCalls>>

\* A no-pitch branch that stores the flag of the detected branch.
StoreNotDetectedAsDetected ==
    /\ audioPc = "storeNotDetected"
    /\ pitchDetected' = TRUE
    /\ stale' = [stale EXCEPT !.detected = Remember(@, pitchDetected)]
    /\ audioPc' = "finish"
    /\ UNCHANGED <<libVars, config, pitchStabilizer, polyphonicGenerator, appAudio,
                   outputBuffer, outputScratchBuffer, deviceVars, latestFrequency,
                   latestConfidence, bufferVars, ringVars, feedbackVars, uiVars,
                   frameLen, result, stabilized, callbackResult, callbacks,
                   lastWritten, updateCalls>>

\* A no-pitch branch that also resets the stabilizer.
StoreNotDetectedResetting ==
    /\ audioPc = "storeNotDetected"
    /\ pitchDetected' = FALSE
    /\ pitchStabilizer' = IF pitchStabilizer = NullStabilizer THEN pitchStabilizer
                          ELSE StabilizerReset(pitchStabilizer)
    /\ stale' = [stale EXCEPT !.detected = Remember(@, pitchDetected)]
    /\ audioPc' = "finish"
    /\ UNCHANGED <<libVars, config, polyphonicGenerator, appAudio,
                   outputBuffer, outputScratchBuffer, deviceVars, latestFrequency,
                   latestConfidence, bufferVars, ringVars, feedbackVars, uiVars,
                   frameLen, result, stabilized, callbackResult, callbacks,
                   lastWritten, updateCalls>>

\* Lines 380-383: the no-pitch branch stores the flag only.
StoreNotDetected ==
    /\ audioPc = "storeNotDetected"
    /\ pitchDetected' = FALSE
    /\ stale' = [stale EXCEPT !.detected = Remember(@, pitchDetected)]
    /\ audioPc' = "finish"
    /\ UNCHANGED <<libVars, config, pitchStabilizer, polyphonicGenerator, appAudio,
                   outputBuffer, outputScratchBuffer, deviceVars, latestFrequency,
                   latestConfidence, bufferVars, ringVars, feedbackVars, uiVars,
                   frameLen, result, stabilized, callbackResult, callbacks,
                   lastWritten, updateCalls>>

\* Lines 317-326: the gained samples go to the ring, the write position wraps.
RECURSIVE RingWrite(_, _, _)
RingWrite(ring, writePos, samples) ==
    IF samples = <<>> \/ Len(ring) = 0
    THEN [ring |-> ring, writePos |-> writePos]
    ELSE RingWrite([ring EXCEPT ![writePos + 1] = Head(samples)],
                   (writePos + 1) % Len(ring), Tail(samples))

\* Lines 330-338: peak of the gained samples.
RECURSIVE PeakLevel(_)
PeakLevel(samples) ==
    IF samples = <<>> THEN 0
    ELSE Max(Abs(Head(samples)), PeakLevel(Tail(samples)))

\* Lines 314-341: monitoring ring write, level meter, return 0.  The locals of
\* InputCallback and ProcessAudio end with the call.
InputCallbackFinish ==
    /\ audioPc = "finish"
    /\ LET gainedBuffer == SubSeq(processingBuffer, 1, frameLen)
       IN /\ IF inputMonitoringEnabled
             THEN LET w == RingWrite(monitoringRingBuffer, monitoringWritePos,
                                     gainedBuffer)
                  IN /\ monitoringRingBuffer' = w.ring
                     /\ monitoringWritePos' = w.writePos
             ELSE UNCHANGED <<monitoringRingBuffer, monitoringWritePos>>
          /\ currentInputLevel' = PeakLevel(gainedBuffer)
    /\ ringLog' = IF inputMonitoringEnabled
                  THEN [ringLog EXCEPT !.written = @ + frameLen]
                  ELSE ringLog
    /\ callbackResult' = 0
    /\ audioPc' = "idle"
    /\ frameLen' = 0
    /\ result' = NoPitch
    /\ stabilized' = [frequency |-> 0, confidence |-> 0]
    /\ updateCalls' = 0
    /\ UNCHANGED <<toolVars, rawSeen, appStarted, mixing, appTuning, settings, config, pitchStabilizer, stale, polyphonicGenerator, appAudio,
                   outputBuffer, outputScratchBuffer, deviceVars, publishVars,
                   processingBuffer, bufferOverflow, oversized, monitoringReadPos,
                   feedbackVars, uiVars, callbacks, lastWritten>>

(***************************************************************************)
(* UI thread after construction.                                           *)
(***************************************************************************)
\* Lines 223-230.  The three loads are relaxed: each may be performed in any
\* order and may observe the newest store or an older one still in flight.
GetLatestPitchBegin ==
    /\ uiPc = "ready"
    /\ uiPc' = "getLatestPitch"
    /\ data' = DefaultPitchData
    /\ pendingLoads' = PublishedFields
    /\ UNCHANGED <<libVars, config, pitchStabilizer, stale, polyphonicGenerator, appAudio,
                   outputBuffer, outputScratchBuffer, deviceVars, publishVars,
                   bufferVars, ringVars, feedbackVars, overflowResult,
                   switchResult, audioVars>>

Newest(field) ==
    CASE field = "frequency" -> latestFrequency
      [] field = "confidence" -> latestConfidence
      [] OTHER -> pitchDetected

Observable(field) == Append(stale[field], Newest(field))

GetLatestPitchLoad(field, i) ==
    /\ uiPc = "getLatestPitch"
    /\ field \in pendingLoads
    /\ i \in 1..Len(Observable(field))
    /\ data' = [data EXCEPT ![field] = Observable(field)[i]]
    /\ stale' = [stale EXCEPT ![field] = SubSeq(@, i, Len(@))]
    /\ pendingLoads' = pendingLoads \ {field}
    /\ UNCHANGED <<libVars, config, pitchStabilizer, polyphonicGenerator, appAudio,
                   outputBuffer, outputScratchBuffer, deviceVars, publishVars,
                   bufferVars, ringVars, feedbackVars, uiPc, overflowResult,
                   switchResult, audioVars>>

\* data holds the returned PitchData while uiPc = "getLatestPitch" and no load
\* is pending.
GetLatestPitchReturn ==
    /\ uiPc = "getLatestPitch"
    /\ pendingLoads = {}
    /\ uiPc' = "ready"
    /\ data' = DefaultPitchData
    /\ UNCHANGED <<libVars, config, pitchStabilizer, stale, polyphonicGenerator, appAudio,
                   outputBuffer, outputScratchBuffer, deviceVars, publishVars,
                   bufferVars, ringVars, feedbackVars, pendingLoads,
                   overflowResult, switchResult, audioVars>>

\* The latch is read and cleared (the layer the tests exercise).
CheckBufferOverflow ==
    /\ uiPc = "ready"
    /\ overflowResult' = bufferOverflow
    /\ bufferOverflow' = FALSE
    /\ oversized' = FALSE
    /\ UNCHANGED <<libVars, config, pitchStabilizer, stale, polyphonicGenerator, appAudio,
                   outputBuffer, outputScratchBuffer, deviceVars, publishVars,
                   processingBuffer, currentInputLevel, ringVars, feedbackVars,
                   uiPc, data, pendingLoads, switchResult, audioVars>>

\* Lines 568-576 and 585-593: the fallback to the default device.
FallbackToDefault(dev, id, fallbackOpenResult) ==
    IF fallbackOpenResult
    THEN [device |-> DeviceStart(DeviceOpen(dev)), id |-> NoDevice]
    ELSE [device |-> DeviceOpen(dev), id |-> id]

InputDeviceIds == {0, 1}

\* Lines 533-603
SwitchInputDevice(deviceId, stopResult, openResult, startResult, fallbackOpenResult) ==
    /\ uiPc = "ready"
    /\ IF deviceId = currentInputDeviceId /\ inputDevice.isRunning
       THEN /\ switchResult' = TRUE
            /\ UNCHANGED <<inputDevice, currentInputDeviceId>>
       ELSE IF inputDevice.isRunning /\ ~stopResult
       THEN /\ switchResult' = FALSE
            /\ UNCHANGED <<inputDevice, currentInputDeviceId>>
       ELSE LET stopped == IF inputDevice.isRunning THEN DeviceStop(inputDevice)
                           ELSE inputDevice
                closed == IF stopped.isOpen THEN DeviceClose(stopped) ELSE stopped
                opened == DeviceOpen(closed)
            IN IF ~openResult
               THEN LET f == FallbackToDefault(opened, currentInputDeviceId,
                                               fallbackOpenResult)
                    IN /\ inputDevice' = f.device
                       /\ currentInputDeviceId' = f.id
                       /\ switchResult' = FALSE
               ELSE IF ~DeviceStartResult(opened, startResult)
               THEN LET f == FallbackToDefault(DeviceClose(DeviceStart(opened)),
                                               currentInputDeviceId,
                                               fallbackOpenResult)
                    IN /\ inputDevice' = f.device
                       /\ currentInputDeviceId' = f.id
                       /\ switchResult' = FALSE
               ELSE /\ inputDevice' = DeviceStart(opened)
                    /\ currentInputDeviceId' = deviceId
                    /\ switchResult' = TRUE
    /\ UNCHANGED <<libVars, config, pitchStabilizer, stale, polyphonicGenerator, appAudio,
                   outputBuffer, outputScratchBuffer, outputDevice,
                   currentOutputDeviceId, outputChannels, publishVars, bufferVars,
                   ringVars, feedbackVars, uiPc, data, pendingLoads,
                   overflowResult, audioVars>>

\* An UpdateAudioFeedback that also resets the detected flag.
UpdateAudioFeedbackResetting(audioConfig) ==
    /\ beepEnabled' = audioConfig.enableBeep
    /\ beepVolume' = audioConfig.beepVolume
    /\ referenceEnabled' = audioConfig.enableReference
    /\ referenceVolume' = audioConfig.referenceVolume
    /\ referenceFrequency' = audioConfig.referenceFrequency
    /\ inputMonitoringEnabled' = audioConfig.enableInputMonitoring
    /\ monitoringVolume' = audioConfig.monitoringVolume
    /\ inputGain' = audioConfig.inputGain
    /\ droneEnabled' = audioConfig.enableDroneMode
    /\ polyphonicEnabled' = audioConfig.enablePolyphonicMode
    /\ beepGenerator' = [frequency |-> 880]
    /\ referenceGenerator' = [referenceGenerator EXCEPT
                                 !.frequency = audioConfig.referenceFrequency]
    /\ pitchDetected' = FALSE
    /\ UNCHANGED <<libVars, config, pitchStabilizer, stale, polyphonicGenerator,
                   outputBuffer, outputScratchBuffer, deviceVars, latestFrequency,
                   latestConfidence, bufferVars, ringVars, audioVars>>

\* Lines 690-710: ten relaxed stores and two generator frequencies; nothing
\* else of the layer changes.
FeedbackStores(audioConfig) ==
    /\ beepEnabled' = audioConfig.enableBeep
    /\ beepVolume' = audioConfig.beepVolume
    /\ referenceEnabled' = audioConfig.enableReference
    /\ referenceVolume' = audioConfig.referenceVolume
    /\ referenceFrequency' = audioConfig.referenceFrequency
    /\ inputMonitoringEnabled' = audioConfig.enableInputMonitoring
    /\ monitoringVolume' = audioConfig.monitoringVolume
    /\ inputGain' = audioConfig.inputGain
    /\ droneEnabled' = audioConfig.enableDroneMode
    /\ polyphonicEnabled' = audioConfig.enablePolyphonicMode
    /\ beepGenerator' = [frequency |-> 880]
    /\ referenceGenerator' = [referenceGenerator EXCEPT
                                 !.frequency = audioConfig.referenceFrequency]

\* The generators are plain members (AudioProcessingLayer.h, lines 218-221) and
\* no lock guards them: MixFeedback uses referenceGenerator for the drone and
\* the reference tone (lines 437-505) and polyphonicGenerator for the chord.
\* A UI-thread call that writes one of them while an output callback is using
\* it is a data race; mixing.raced records that it happened.
UnsynchronizedWrite(written) ==
    LET used == IF mixing.source \in {"drone", "reference"} THEN {"referenceGenerator"}
                ELSE IF mixing.source = "chord" THEN {"polyphonicGenerator"}
                ELSE {}
    IN mixing' = IF mixing.active /\ used \cap written # {}
                 THEN [mixing EXCEPT !.raced = TRUE]
                 ELSE mixing

UpdateAudioFeedback(audioConfig) ==
    /\ FeedbackStores(audioConfig)
    /\ UnsynchronizedWrite({"referenceGenerator"})
    /\ UNCHANGED <<toolVars, rawSeen, appStarted, appTuning, ringLog, settings, config, pitchStabilizer, stale, polyphonicGenerator,
                   outputBuffer, outputScratchBuffer, deviceVars, publishVars,
                   bufferVars, ringVars, audioVars>>

\* PrecisionGuitarTunerApp::HandleKeyboardInput, lines 137-142
KeyR ==
    /\ uiPc = "ready"
    /\ appAudio' = [appAudio EXCEPT !.enableReference = ~@]
    /\ UpdateAudioFeedback(appAudio')
    /\ UNCHANGED uiVars

\* PrecisionGuitarTunerApp::HandleKeyboardInput, lines 163-168
KeyUpArrow ==
    /\ uiPc = "ready"
    /\ appAudio' = [appAudio EXCEPT !.inputGain = Min(@ + kGainStep, kGainMax)]
    /\ UpdateAudioFeedback(appAudio')
    /\ UNCHANGED uiVars

\* PrecisionGuitarTunerApp::HandleKeyboardInput, lines 170-175
KeyDownArrow ==
    /\ uiPc = "ready"
    /\ appAudio' = [appAudio EXCEPT !.inputGain = Max(@ - kGainStep, kGainMin)]
    /\ UpdateAudioFeedback(appAudio')
    /\ UNCHANGED uiVars

\* PrecisionGuitarTunerApp::HandleKeyboardInput, lines 106-111
KeySpace ==
    /\ uiPc = "ready"
    /\ appAudio' = [appAudio EXCEPT !.enableInputMonitoring = ~@]
    /\ UpdateAudioFeedback(appAudio')
    /\ UNCHANGED uiVars

\* SettingsLayer.cpp, lines 409-420: the "Input Gain" slider, 0.0 to 5.0
InputGainSlider(gain) ==
    /\ uiPc = "ready"
    /\ appAudio' = [appAudio EXCEPT !.inputGain = gain]
    /\ UpdateAudioFeedback(appAudio')
    /\ UNCHANGED uiVars

(***************************************************************************)
(* Audio output thread: OutputCallback and MixFeedback.                    *)
(***************************************************************************)
OutputLens == {0, 1, 2}

\* A tone source chosen with the reference tone first.
ToneSourceReferenceFirst ==
    IF referenceEnabled THEN "reference"
    ELSE IF droneEnabled THEN "drone"
    ELSE IF polyphonicEnabled THEN "chord"
    ELSE "none"

\* Lines 437-505: drone takes priority over chord, chord over reference.
ToneSource ==
    IF droneEnabled THEN "drone"
    ELSE IF polyphonicEnabled THEN "chord"
    ELSE IF referenceEnabled THEN "reference"
    ELSE "none"

\* Lines 386-531.  An output sample is the monitored input mixed in (thousandths)
\* and the tone source mixed on top of it.
MixFeedback(n) ==
    LET frames == Min(n \div outputChannels, Len(outputScratchBuffer))
        size == Len(monitoringRingBuffer)
        available == IF monitoringWritePos >= monitoringReadPos
                     THEN monitoringWritePos - monitoringReadPos
                     ELSE size - monitoringReadPos + monitoringWritePos
        samplesToRead == IF inputMonitoringEnabled THEN Min(available, frames) ELSE 0
        frameOf(k) == (k - 1) \div outputChannels
        monitor(k) ==
            IF frameOf(k) < samplesToRead
            THEN monitoringRingBuffer[((monitoringReadPos + frameOf(k)) % size) + 1]
                 * monitoringVolume
            ELSE 0
        tone(k) ==
            IF outputChannels = 1 \/ frameOf(k) < frames THEN ToneSource ELSE "none"
        \* the number of the sample a ring position holds: writing starts at
        \* position 0, so sample w went to position (w - 1) % size
        numberAt(p) ==
            LET ws == {w \in 1..ringLog.written : (w - 1) % size = p}
            IN IF ws = {} THEN 0 ELSE CHOOSE w \in ws : \A v \in ws : v <= w
    IN /\ outputBuffer' = [k \in 1..n |-> [monitor |-> monitor(k), tone |-> tone(k)]]
       /\ ringLog' = [ringLog EXCEPT !.mixed =
                         @ \o [j \in 1..samplesToRead |->
                                  numberAt((monitoringReadPos + j - 1) % size)]]
       /\ monitoringReadPos' = IF samplesToRead > 0
                               THEN (monitoringReadPos + samplesToRead) % size
                               ELSE monitoringReadPos
       /\ outputScratchBuffer' =
            IF ToneSource # "none" /\ outputChannels # 1
            THEN [i \in 1..Len(outputScratchBuffer) |->
                     IF i <= frames THEN referenceVolume ELSE outputScratchBuffer[i]]
            ELSE outputScratchBuffer
       /\ referenceGenerator' =
            IF ToneSource \in {"drone", "reference"}
            THEN [referenceGenerator EXCEPT !.amplitude = referenceVolume]
            ELSE referenceGenerator
       /\ polyphonicGenerator' =
            IF ToneSource = "chord"
            THEN [polyphonicGenerator EXCEPT !.volume = referenceVolume]
            ELSE polyphonicGenerator

\* Lines 344-358
OutputCallback(n) ==
    /\ outputDevice.isRunning
    /\ IF n = 0
       THEN UNCHANGED <<outputBuffer, monitoringReadPos, outputScratchBuffer,
                        referenceGenerator, polyphonicGenerator, ringLog>>
       ELSE MixFeedback(n)
    /\ UNCHANGED <<toolVars, rawSeen, appStarted, mixing, appTuning, settings, config, pitchStabilizer, stale, appAudio, deviceVars,
                   publishVars, bufferVars, monitoringRingBuffer,
                   monitoringWritePos, beepEnabled, beepVolume, referenceEnabled,
                   referenceVolume, referenceFrequency, inputMonitoringEnabled,
                   monitoringVolume, inputGain, droneEnabled, polyphonicEnabled,
                   beepGenerator, uiVars, audioVars>>

\* The same callback seen from the UI thread: entered, it mixes with the
\* flags it loads, and it is using the generator of its tone source until it
\* returns.
OutputCallbackEnter(n) ==
    /\ outputDevice.isRunning
    /\ ~mixing.active
    /\ n > 0
    /\ MixFeedback(n)
    /\ mixing' = [mixing EXCEPT !.active = TRUE, !.source = ToneSource]
    /\ UNCHANGED <<toolVars, rawSeen, appStarted, appTuning, settings, config, pitchStabilizer,
                   stale, appAudio, deviceVars,
                   publishVars, bufferVars, monitoringRingBuffer,
                   monitoringWritePos, beepEnabled, beepVolume, referenceEnabled,
                   referenceVolume, referenceFrequency, inputMonitoringEnabled,
                   monitoringVolume, inputGain, droneEnabled, polyphonicEnabled,
                   beepGenerator, uiVars, audioVars>>

OutputCallbackReturn ==
    /\ mixing.active
    /\ mixing' = [mixing EXCEPT !.active = FALSE, !.source = "none"]
    /\ UNCHANGED <<toolVars, rawSeen, appStarted, appTuning, ringLog, settings, layerVars>>

(***************************************************************************)
(* Specifications                                                          *)
(***************************************************************************)
ConstructorSteps ==
    \/ \E openResult, startResult \in BOOLEAN : Construct(openResult, startResult)
    \/ \E devices \in OutputDeviceLists, openResult, retryResult, startResult \in BOOLEAN :
          CtorOutputSetup(devices, openResult, retryResult, startResult)
    \/ CtorWarmupDetect
    \/ CtorStabilizerInit

ProcessAudioSteps(outputs) ==
    \/ \E r \in outputs : ProcessAudioDetect(r)
    \/ ProcessAudioStabilize
    \/ StoreFrequency
    \/ StoreConfidence
    \/ StoreDetected
    \/ StoreNotDetected

GetLatestPitchSteps ==
    \/ GetLatestPitchBegin
    \/ \E field \in PublishedFields, i \in 1..(MaxStale + 1) : GetLatestPitchLoad(field, i)
    \/ GetLatestPitchReturn

SwitchSteps ==
    \E deviceId \in InputDeviceIds,
       stopResult, openResult, startResult, fallbackOpenResult \in BOOLEAN :
       SwitchInputDevice(deviceId, stopResult, openResult, startResult,
                         fallbackOpenResult)

\* The pitch pipeline: construction, callbacks of the configured size and the
\* consumer's snapshot reads.
Next ==
    \/ ConstructorSteps
    \/ \E inputBuffer \in FrameBuffers : InputCallbackBegin(inputBuffer)
    \/ ProcessAudioSteps(DetectorOutputs)
    \/ InputCallbackFinish
    \/ GetLatestPitchSteps

Spec == Init /\ [][Next]_vars

\* The pitch pipeline constructed with a valid configuration.
SpecValid == InitWith(ValidConfigs) /\ [][Next]_vars

\* Every operation of the layer that runs beside the input callback.
NextWriters ==
    \/ ConstructorSteps
    \/ \E inputBuffer \in FrameBuffers : InputCallbackBegin(inputBuffer)
    \/ ProcessAudioSteps(CoarseDetectorOutputs)
    \/ InputCallbackFinish
    \/ GetLatestPitchSteps
    \/ SwitchSteps
    \/ KeyR
    \/ \E n \in OutputLens : OutputCallback(n)

SpecWriters == InitWith({DefaultLayerConfig}) /\ [][NextWriters]_vars

\* Input buffers of any length and the overflow poll.
NextBuffer ==
    \/ ConstructorSteps
    \/ \E inputBuffer \in InputBuffers : InputCallbackBegin(inputBuffer)
    \/ ProcessAudioSteps(CoarseDetectorOutputs)
    \/ InputCallbackFinish
    \/ CheckBufferOverflow

SpecBuffer == InitWith(ValidConfigs) /\ [][NextBuffer]_vars

\* The input gain keys and the level meter.
NextLevel ==
    \/ ConstructorSteps
    \/ \E inputBuffer \in LevelBuffers : InputCallbackBegin(inputBuffer)
    \/ ProcessAudioSteps(CoarseDetectorOutputs)
    \/ InputCallbackFinish
    \/ KeyUpArrow
    \/ KeyDownArrow

SpecLevel == InitWith({DefaultLayerConfig}) /\ [][NextLevel]_vars

(***************************************************************************)
(* A stabilizer used on its own, as tests/TestPitchStabilizer.cpp does:    *)
(* constructed with some configuration, then updated and reset in any      *)
(* order.  A second instance is constructed anew at every Reset and        *)
(* receives the same updates.                                              *)
(***************************************************************************)
Alphas == {30, 100}
StabilizerSamples == {PitchResult(110, 90), PitchResult(440, 60), PitchResult(2000, 100)}

StabilizerConstruct(type, alpha, windowSize) ==
    /\ stab = NullStabilizer
    /\ stab' = NewStabilizer(type, alpha, windowSize)
    /\ fresh' = NewStabilizer(type, alpha, windowSize)
    /\ fed' = <<>>
    /\ UNCHANGED <<stabSteps, tuningCall, fileVars, rawSeen, appStarted, shellVars, layerVars>>

StabilizerUpdateCall(raw) ==
    /\ stab # NullStabilizer
    /\ stabSteps < MaxStabSteps
    /\ stab' = StabilizerUpdate(stab, raw)
    /\ fresh' = StabilizerUpdate(fresh, raw)
    /\ fed' = Append(fed, raw)
    /\ stabSteps' = stabSteps + 1
    /\ UNCHANGED <<tuningCall, fileVars, rawSeen, appStarted, shellVars, layerVars>>

StabilizerResetCall ==
    /\ stab # NullStabilizer
    /\ stabSteps < MaxStabSteps
    /\ stab' = StabilizerReset(stab)
    /\ fresh' = NewStabilizer(stab.type, stab.alpha, stab.windowSize)
    /\ fed' = <<>>
    /\ stabSteps' = stabSteps + 1
    /\ UNCHANGED <<tuningCall, fileVars, rawSeen, appStarted, shellVars, layerVars>>

NextStabilizer ==
    \/ \E type \in StabilizerTypes \ {"None"}, alpha \in Alphas, windowSize \in 1..MaxWindow :
          StabilizerConstruct(type, alpha, windowSize)
    \/ \E raw \in StabilizerSamples : StabilizerUpdateCall(raw)
    \/ StabilizerResetCall

SpecStabilizer == InitWith({DefaultLayerConfig}) /\ [][NextStabilizer]_vars

(***************************************************************************)
(* The drone and polyphonic modes: the application constructor applies the *)
(* loaded configuration; the D, P and M keys and the two check boxes of    *)
(* the settings panel change the shared Config and push it to the layer.   *)
(* All of them run on the UI thread.                                       *)
(***************************************************************************)
\* audio settings a configuration may hold, the two modes not both enabled
StartupAudioConfigs ==
    {audio \in {[DefaultAudioConfig EXCEPT !.enableDroneMode = drone,
                                           !.enablePolyphonicMode = chord,
                                           !.enableReference = reference] :
                    drone \in BOOLEAN, chord \in BOOLEAN, reference \in BOOLEAN} :
        ~(audio.enableDroneMode /\ audio.enablePolyphonicMode)}

\* PrecisionGuitarTunerApp::PrecisionGuitarTunerApp, lines 7 and 27
AppStartup(audioConfig) ==
    /\ uiPc = "ready"
    /\ ~appStarted
    /\ appStarted' = TRUE
    /\ appAudio' = audioConfig
    /\ FeedbackStores(audioConfig)
    /\ UnsynchronizedWrite({"referenceGenerator"})
    /\ UNCHANGED <<toolVars, rawSeen, appTuning, ringLog, settings, config, pitchStabilizer, stale,
                   polyphonicGenerator, outputBuffer, outputScratchBuffer, deviceVars,
                   publishVars, bufferVars, ringVars, audioVars, uiVars>>

\* AudioProcessingLayer::SetPolyphonicFrequencies, lines 717-721: the voices,
\* as TuningPresets gives them, and the reference volume as it is now
SetPolyphonicFrequencies(frequencies) ==
    [frequencies |-> frequencies, volume |-> referenceVolume]

\* what the D key and the drone check box do to the configuration, without
\* switching the other mode off
ToggleDroneKeepingPolyphonic(audio) == [audio EXCEPT !.enableDroneMode = ~@]

\* lines 115-119 and SettingsLayer.cpp 481-486
ToggleDrone(audio) ==
    IF ~audio.enableDroneMode
    THEN [audio EXCEPT !.enableDroneMode = TRUE, !.enablePolyphonicMode = FALSE]
    ELSE [audio EXCEPT !.enableDroneMode = FALSE]

\* lines 126-130 and SettingsLayer.cpp 500-505
TogglePolyphonic(audio) ==
    IF ~audio.enablePolyphonicMode
    THEN [audio EXCEPT !.enablePolyphonicMode = TRUE, !.enableDroneMode = FALSE]
    ELSE [audio EXCEPT !.enablePolyphonicMode = FALSE]

\* PrecisionGuitarTunerApp::HandleKeyboardInput, lines 113-122
KeyD ==
    /\ uiPc = "ready"
    /\ appAudio' = ToggleDrone(appAudio)
    /\ UpdateAudioFeedback(appAudio')
    /\ UNCHANGED uiVars

\* SettingsLayer.cpp, lines 478-489: a click toggles the box
DroneCheckbox ==
    /\ uiPc = "ready"
    /\ appAudio' = ToggleDrone(appAudio)
    /\ UpdateAudioFeedback(appAudio')
    /\ UNCHANGED uiVars

\* the P key and the polyphonic check box; tuningMode is config.tuning.mode
PolyphonicToggled(tuningMode) ==
    /\ uiPc = "ready"
    /\ appAudio' = TogglePolyphonic(appAudio)
    /\ polyphonicGenerator' =
          IF appAudio'.enablePolyphonicMode
          THEN SetPolyphonicFrequencies(
                   GetPreset(tuningMode, appTuning.referencePitch).targetFrequencies)
          ELSE polyphonicGenerator
    /\ FeedbackStores(appAudio')
    /\ UnsynchronizedWrite(IF appAudio'.enablePolyphonicMode
                           THEN {"referenceGenerator", "polyphonicGenerator"}
                           ELSE {"referenceGenerator"})
    /\ UNCHANGED <<toolVars, rawSeen, appStarted, appTuning, ringLog, settings, config, pitchStabilizer, stale, outputBuffer,
                   outputScratchBuffer, deviceVars, publishVars, bufferVars, ringVars,
                   audioVars, uiVars>>

\* PrecisionGuitarTunerApp::HandleKeyboardInput, lines 124-135
KeyP(tuningMode) == PolyphonicToggled(tuningMode)

\* SettingsLayer.cpp, lines 497-512
PolyphonicCheckbox(tuningMode) == PolyphonicToggled(tuningMode)

\* SettingsLayer::RenderTuningModeSelector, lines 214-226
TuningModeCombo(mode) ==
    /\ uiPc = "ready"
    /\ appTuning' = [appTuning EXCEPT !.mode = mode]
    /\ IF appAudio.enablePolyphonicMode
       THEN /\ polyphonicGenerator' = SetPolyphonicFrequencies(
                    GetPreset(mode, appTuning.referencePitch).targetFrequencies)
            /\ UnsynchronizedWrite({"polyphonicGenerator"})
       ELSE UNCHANGED <<polyphonicGenerator, mixing>>
    /\ UNCHANGED <<toolVars, rawSeen, appStarted, ringLog, settings, config,
                   pitchStabilizer, stale, appAudio, outputBuffer, outputScratchBuffer, deviceVars,
                   publishVars, bufferVars, ringVars, feedbackVars, uiVars, audioVars>>

\* SettingsLayer::RenderReferencePitchSlider, lines 181-185: the slider stores
\* the pitch in the configuration and calls nothing
ReferencePitchSlider(referencePitch) ==
    /\ uiPc = "ready"
    /\ appTuning' = [appTuning EXCEPT !.referencePitch = referencePitch]
    /\ UNCHANGED <<toolVars, rawSeen, appStarted, mixing, ringLog, settings, layerVars>>

\* lines 194-198: the Reset button next to it
ReferencePitchReset ==
    /\ uiPc = "ready"
    /\ appTuning' = [appTuning EXCEPT !.referencePitch = 0]
    /\ UNCHANGED <<toolVars, rawSeen, appStarted, mixing, ringLog, settings, layerVars>>

\* PrecisionGuitarTunerApp::HandleKeyboardInput, lines 151-160
KeyM ==
    /\ uiPc = "ready"
    /\ appAudio' = [appAudio EXCEPT !.enableInputMonitoring = FALSE,
                                    !.enableDroneMode = FALSE,
                                    !.enablePolyphonicMode = FALSE,
                                    !.enableReference = FALSE,
                                    !.enableBeep = FALSE]
    /\ UpdateAudioFeedback(appAudio')
    /\ UNCHANGED uiVars

(***************************************************************************)
(* The settings window.  TunerVisualizationLayer holds showSettingsPanel,  *)
(* SettingsLayer holds showSettings; both start true.  An event is handled *)
(* between two frames; RenderFrame is SettingsLayer::OnRender.             *)
(***************************************************************************)
UiEvent(name, showSettings, showSettingsPanel) ==
    /\ Len(settings.events) < MaxUiEvents
    /\ settings' = [settings EXCEPT !.showSettings = showSettings,
                                    !.showSettingsPanel = showSettingsPanel,
                                    !.rendered = FALSE,
                                    !.events = Append(@, name)]
    /\ UNCHANGED <<toolVars, rawSeen, appStarted, mixing, appTuning, ringLog, layerVars>>

\* PrecisionGuitarTunerApp::HandleKeyboardInput, lines 177-181
KeyCtrlComma == UiEvent("CtrlComma", settings.showSettings, TRUE)

\* PrecisionGuitarTunerApp::HandleKeyboardInput, lines 183-187
KeyEscape == UiEvent("Escape", settings.showSettings, FALSE)

\* TunerVisualizationLayer.cpp, lines 128-131: the gear icon toggles the panel
GearIcon == UiEvent("Gear", settings.showSettings, ~settings.showSettingsPanel)

\* SettingsLayer.cpp, line 52: ImGui::Begin clears showSettings when the
\* close button of the drawn window is clicked
CloseButton ==
    /\ settings.drawn
    /\ UiEvent("Close", FALSE, settings.showSettingsPanel)

\* SettingsLayer::OnRender, lines 34-84
RenderFrame ==
    /\ settings' = [settings EXCEPT
                       !.drawn = settings.showSettings /\ settings.showSettingsPanel,
                       !.rendered = TRUE]
    /\ UNCHANGED <<toolVars, rawSeen, appStarted, mixing, appTuning, ringLog, layerVars>>

(***************************************************************************)
(* Config persistence (Config.h, Config.cpp).  A JSON object is a function *)
(* from its keys to its values; the file holds a JSON document, text that  *)
(* does not parse, or is missing or unreadable.  A function that throws    *)
(* yields Threw.                                                           *)
(***************************************************************************)
WindowConfigDefaults ==
    [width |-> 1024, height |-> 768, posX |-> -1, posY |-> -1, isMaximized |-> FALSE]

\* struct AudioConfig: the device fields with the feedback fields
AudioConfigDefaults ==
    [deviceId |-> -1, deviceName |-> "", sampleRate |-> 48000, bufferSize |-> 256,
     inputChannel |-> 0, autoSelectInput |-> TRUE, outputDeviceId |-> -1,
     outputDeviceName |-> ""] @@ DefaultAudioConfig

TuningConfigDefaults == [mode |-> "Chromatic", referencePitch |-> 440, tolerance |-> 10]

ConfigDefaults ==
    [window |-> WindowConfigDefaults, audio |-> AudioConfigDefaults,
     tuning |-> TuningConfigDefaults, version |-> 1]

GetDefault ==
    [ConfigDefaults EXCEPT !.audio.deviceName = "Default Audio Device"]

Threw == [threw |-> TRUE]
Returned(v) == [threw |-> FALSE, value |-> v]

\* the keys to_json(AudioConfig) writes and from_json(AudioConfig) reads
AudioJsonKeys ==
    {"deviceId", "deviceName", "outputDeviceId", "outputDeviceName", "enableBeep",
     "beepVolume", "enableReference", "referenceVolume", "referenceFrequency",
     "enableInputMonitoring", "monitoringVolume", "inputGain", "enableDroneMode",
     "enablePolyphonicMode"}

AudioToJson(audio) == [k \in AudioJsonKeys |-> audio[k]]

\* j.value(key, default) for every key read, into a default-constructed AudioConfig
AudioFromJson(j) ==
    [k \in DOMAIN AudioConfigDefaults |->
        IF k \in AudioJsonKeys /\ k \in DOMAIN j THEN j[k] ELSE AudioConfigDefaults[k]]

\* NLOHMANN_DEFINE_TYPE_INTRUSIVE: every listed member is written, and read with at()
IntrusiveToJson(object, keys) == [k \in keys |-> object[k]]

IntrusiveFromJson(j, keys) ==
    IF keys \subseteq DOMAIN j THEN Returned([k \in keys |-> j[k]]) ELSE Threw

WindowJsonKeys == {"width", "height", "posX", "posY", "isMaximized"}
TuningJsonKeys == {"mode", "referencePitch", "tolerance"}
ConfigJsonKeys == {"window", "audio", "tuning", "version"}

ConfigToJson(c) ==
    [window |-> IntrusiveToJson(c.window, WindowJsonKeys),
     audio |-> AudioToJson(c.audio),
     tuning |-> IntrusiveToJson(c.tuning, TuningJsonKeys),
     version |-> c.version]

ConfigFromJson(j) ==
    IF ~(ConfigJsonKeys \subseteq DOMAIN j) THEN Threw
    ELSE LET w == IntrusiveFromJson(j.window, WindowJsonKeys)
             t == IntrusiveFromJson(j.tuning, TuningJsonKeys)
         IN IF w.threw \/ t.threw THEN Threw
            ELSE Returned([window |-> w.value, audio |-> AudioFromJson(j.audio),
                           tuning |-> t.value, version |-> j.version])

\* the body of the try block of Config::Load
LoadTry(f) ==
    IF f.kind = "missing" THEN Returned(GetDefault)
    ELSE IF f.kind = "unreadable" THEN Returned(GetDefault)
    ELSE IF f.kind = "malformed" THEN Threw
    ELSE LET c == ConfigFromJson(f.document)
         IN IF c.threw THEN Threw
            ELSE IF c.value.version # 1 THEN Returned(GetDefault)
            ELSE Returned(c.value)

\* a variant of Load that lets the exception escape
LoadWithoutCatch(f) == LoadTry(f)

\* Config::Load: whatever the try block throws is caught and answered by the default
Load(f) ==
    IF LoadTry(f).threw THEN Returned(GetDefault) ELSE LoadTry(f)

\* Configs that differ from the default in one field of every part
ConfigInputs ==
    {[ConfigDefaults EXCEPT !.window.width = width, !.audio.sampleRate = sampleRate,
                            !.audio.enableBeep = enableBeep,
                            !.tuning.referencePitch = referencePitch,
                            !.version = version] :
        width \in {1024, 1920}, sampleRate \in {48000, 44100}, enableBeep \in BOOLEAN,
        referencePitch \in {440, 442}, version \in {1, 2}}

\* documents written by hand: a key of the audio object or a whole part removed
WithoutKey(j, key) == [k \in DOMAIN j \ {key} |-> j[k]]

HandWritten(c) ==
    {ConfigToJson(c),
     [ConfigToJson(c) EXCEPT !.audio = WithoutKey(@, "enableBeep")],
     [ConfigToJson(c) EXCEPT !.window = WithoutKey(@, "width")],
     WithoutKey(ConfigToJson(c), "tuning"),
     WithoutKey(ConfigToJson(c), "audio")}

FileContents ==
    {[kind |-> "missing"], [kind |-> "unreadable"], [kind |-> "malformed"]}
    \cup {[kind |-> "json", document |-> d] :
            d \in UNION {HandWritten(c) : c \in ConfigInputs}}

\* something other than Save puts the file into some state
FileChanges(content) ==
    /\ file' = content
    /\ savedConfig' = [saved |-> FALSE]
    /\ loaded' = [called |-> FALSE]
    /\ UNCHANGED <<stabVars, tuningCall, rawSeen, appStarted, shellVars, layerVars>>

\* Config::Save: the file is opened for writing or it is not
Save(c, opened) ==
    /\ IF opened
       THEN /\ file' = [kind |-> "json", document |-> ConfigToJson(c)]
            /\ savedConfig' = [saved |-> TRUE, config |-> c]
       ELSE UNCHANGED <<file, savedConfig>>
    /\ loaded' = [called |-> FALSE]
    /\ UNCHANGED <<stabVars, tuningCall, rawSeen, appStarted, shellVars, layerVars>>

LoadCall ==
    /\ loaded' = [called |-> TRUE, result |-> Load(file)]
    /\ UNCHANGED <<file, savedConfig, stabVars, tuningCall, rawSeen, appStarted, shellVars, layerVars>>

\* PrecisionGuitarTunerApp::PrecisionGuitarTunerApp, lines 13-15: the layer's
\* Config with its member defaults (AudioProcessingLayer.h, lines 42-53), the
\* sample rate and buffer size taken from the loaded configuration
AudioLayerConfigOf(c) ==
    [sampleRate |-> c.audio.sampleRate, bufferSize |-> c.audio.bufferSize,
     minFrequency |-> 80, maxFrequency |-> 1200, stabilizerType |-> "Hybrid",
     emaAlpha |-> 30, medianWindowSize |-> 5]

NextFile ==
    \/ \E content \in FileContents : FileChanges(content)
    \/ \E c \in ConfigInputs, opened \in BOOLEAN : Save(c, opened)
    \/ LoadCall

SpecFile == InitWith({DefaultLayerConfig}) /\ [][NextFile]_vars

(***************************************************************************)
(* The TuningPresets functions called with arguments of every kind.        *)
(***************************************************************************)
\* E2, E2 + 10, E2 + 24, E2 + 25, E2 + 50, halfway to A2, A2, D2, E4, far below, far above
Pitches == {-2900, -2890, -2876, -2875, -2850, -2650, -2400, -3100, -500, -4000, 500}
ReferencePitches == {-40, 0, 39}
Tolerances == {0, kfTargetStringToleranceCents, 300}
StringIndices == {-1, 0, 1, 2, 3, 4, 5, 6, 100}
TuningModeSet == {TuningModes[i] : i \in 1..Len(TuningModes)}

CallFindClosestString(mode, frequency, referencePitch, toleranceCents) ==
    /\ tuningCall' = [function |-> "FindClosestString", mode |-> mode,
                      frequency |-> frequency, referencePitch |-> referencePitch,
                      toleranceCents |-> toleranceCents,
                      result |-> FindClosestString(mode, frequency, referencePitch,
                                                   toleranceCents)]
    /\ UNCHANGED <<stabVars, fileVars, rawSeen, appStarted, shellVars, layerVars>>

CallGetStringName(stringIndex, tuningMode, referencePitch) ==
    /\ tuningCall' = [function |-> "GetStringName", stringIndex |-> stringIndex,
                      mode |-> tuningMode, referencePitch |-> referencePitch,
                      result |-> GetStringName(stringIndex, tuningMode, referencePitch)]
    /\ UNCHANGED <<stabVars, fileVars, rawSeen, appStarted, shellVars, layerVars>>

NextTuning ==
    \/ \E mode \in TuningModeSet, frequency \in Pitches,
          referencePitch \in ReferencePitches, toleranceCents \in Tolerances :
          CallFindClosestString(mode, frequency, referencePitch, toleranceCents)
    \/ \E stringIndex \in StringIndices, tuningMode \in TuningModeSet,
          referencePitch \in ReferencePitches :
          CallGetStringName(stringIndex, tuningMode, referencePitch)

SpecTuning == InitWith({DefaultLayerConfig}) /\ [][NextTuning]_vars

\* The application from its start: the layer's constructor, the constructor of
\* the application and then the mode switches in any order.
NextModes ==
    \/ ConstructorSteps
    \/ \E audioConfig \in StartupAudioConfigs : AppStartup(audioConfig)
    \/ appStarted /\ KeyD
    \/ appStarted /\ DroneCheckbox
    \/ appStarted /\ \E tuningMode \in TuningModeSet : KeyP(tuningMode)
    \/ appStarted /\ \E tuningMode \in TuningModeSet : PolyphonicCheckbox(tuningMode)
    \/ appStarted /\ KeyM
    \/ appStarted /\ KeyR

SpecModes == InitWith({DefaultLayerConfig}) /\ [][NextModes]_vars

\* Either a stabilizer used on its own or a layer with a valid configuration.
\* The two share no state, so no behaviour exercises both.
\* The UI thread's handlers beside an output callback in progress.
NextRace ==
    \/ ConstructorSteps
    \/ \E audioConfig \in StartupAudioConfigs : AppStartup(audioConfig)
    \/ appStarted /\ KeyD
    \/ appStarted /\ KeyP(appTuning.mode)
    \/ appStarted /\ KeyR
    \/ appStarted /\ \E mode \in {"Standard", "DropD"} : TuningModeCombo(mode)
    \/ \E n \in OutputLens : OutputCallbackEnter(n)
    \/ OutputCallbackReturn

SpecRace == InitWith({DefaultLayerConfig}) /\ [][NextRace]_vars

\* The detector's result in each input callback, a different one per cycle, so
\* that a published value tells the cycle that published it.
CycleOutputs == <<PitchResult(110, 90), PitchResult(440, 60)>>

\* Snapshots taken beside callbacks that all carry a frame and detect a pitch,
\* unstabilized: every callback is a cycle that publishes all three fields.
NextSnapshot ==
    \/ ConstructorSteps
    \/ InputCallbackBegin(ConstantBuffer(MaxBufferSize, 5))
    \/ callbacks \in 1..Len(CycleOutputs) /\ ProcessAudioDetect(CycleOutputs[callbacks])
    \/ ProcessAudioStabilize
    \/ StoreFrequency
    \/ StoreConfidence
    \/ StoreDetected
    \/ InputCallbackFinish
    \/ GetLatestPitchSteps

SpecSnapshot ==
    InitWith({[DefaultLayerConfig EXCEPT !.stabilizerType = "None"]}) /\ [][NextSnapshot]_vars

\* The input gain from the keyboard and from the slider (tenths).
NextGain ==
    \/ ConstructorSteps
    \/ KeyUpArrow
    \/ KeyDownArrow
    \/ \E gain \in {0, 3, 5, 12, 20, 21, 35, 50} : InputGainSlider(gain)

SpecGain == InitWith({DefaultLayerConfig}) /\ [][NextGain]_vars

\* Input monitoring: switched on and left on, with input callbacks of one or
\* two buffer sizes and output callbacks at any rate.
NextRing ==
    \/ ConstructorSteps
    \/ ~appAudio.enableInputMonitoring /\ KeySpace
    \/ \E n \in 1..2 : InputCallbackBegin(ConstantBuffer(n * MaxBufferSize, 5))
    \/ ProcessAudioSteps(CoarseDetectorOutputs)
    \/ InputCallbackFinish
    \/ \E n \in OutputLens : OutputCallback(n)

SpecRing == InitWith({DefaultLayerConfig}) /\ [][NextRing]_vars

\* Every feedback flag the keyboard toggles, a configuration file that enables
\* both modes, input callbacks that fill the monitoring ring, and output
\* callbacks.
NextMix ==
    \/ ConstructorSteps
    \/ \E audioConfig \in {DefaultAudioConfig,
                             [DefaultAudioConfig EXCEPT !.enableDroneMode = TRUE,
                                                        !.enablePolyphonicMode = TRUE]} :
          AppStartup(audioConfig)
    \/ KeyD
    \/ KeyP(appTuning.mode)
    \/ KeyR
    \/ KeySpace
    \/ \E inputBuffer \in FrameBuffers : InputCallbackBegin(inputBuffer)
    \/ ProcessAudioSteps(CoarseDetectorOutputs)
    \/ InputCallbackFinish
    \/ \E n \in OutputLens : OutputCallback(n)

SpecMix == InitWith({DefaultLayerConfig}) /\ [][NextMix]_vars

\* Frames with and without a pitch and switches of the input device.
NextGap ==
    \/ ConstructorSteps
    \/ \E inputBuffer \in FrameBuffers : InputCallbackBegin(inputBuffer)
    \/ ProcessAudioSteps(DetectorOutputs)
    \/ InputCallbackFinish
    \/ SwitchSteps

SpecGap == InitWith(ValidConfigs) /\ [][NextGap]_vars

\* The chord mode beside changes of the tuning mode and the reference pitch.
NextChord ==
    \/ ConstructorSteps
    \/ AppStartup(DefaultAudioConfig)
    \/ appStarted /\ KeyP(appTuning.mode)
    \/ appStarted /\ PolyphonicCheckbox(appTuning.mode)
    \/ appStarted /\ KeyD
    \/ appStarted /\ \E mode \in TuningModeSet : TuningModeCombo(mode)
    \/ appStarted /\ \E referencePitch \in ReferencePitches :
                        ReferencePitchSlider(referencePitch)
    \/ appStarted /\ ReferencePitchReset

SpecChord == InitWith({DefaultLayerConfig}) /\ [][NextChord]_vars

NextSettings ==
    \/ KeyCtrlComma
    \/ KeyEscape
    \/ GearIcon
    \/ CloseButton
    \/ RenderFrame

SpecSettings == InitWith({DefaultLayerConfig}) /\ [][NextSettings]_vars

NextRange ==
    \/ /\ uiPc = "construct"
       /\ NextStabilizer
    \/ /\ stab = NullStabilizer
       /\ Next

SpecRange == InitWith(ValidConfigs) /\ [][NextRange]_vars

(***************************************************************************)
(* Properties                                                              *)
(***************************************************************************)
\* C1: a frame without a pitch clears the detected flag and nothing else: the
\* published frequency and confidence are always the ones the most recent
\* detected frame stored (0 before the first), and after the stores of a
\* no-pitch frame the flag is false.
C1_NoPitchKeepsValues ==
    /\ latestFrequency = lastWritten.frequency
    /\ latestConfidence = lastWritten.confidence
    /\ (audioPc = "finish" /\ ~result.detected) => ~pitchDetected

\* a no-pitch frame has stored its flag after a detected frame stored values
C1_Witness ==
    /\ audioPc = "finish"
    /\ ~result.detected
    /\ ~pitchDetected
    /\ latestFrequency > 0
    /\ latestConfidence > 0

\* C2: once a detected frame has made its stores, the stabilizer configured
\* for the layer was updated exactly once for it and the published values are
\* the ones GetStabilized returns (the raw result for type None).
C2_EveryFrameStabilized ==
    (audioPc = "finish" /\ result.detected) =>
        /\ pitchDetected
        /\ IF config.stabilizerType = "None"
           THEN /\ latestFrequency = result.frequency
                /\ latestConfidence = result.confidence
           ELSE /\ updateCalls = 1
                /\ latestFrequency = GetStabilized(pitchStabilizer).frequency
                /\ latestConfidence = GetStabilized(pitchStabilizer).confidence

\* C3: while the input stream runs, the UI thread is neither inside Detect nor
\* about to write the stabilizer pointer, so it never does either while the
\* audio thread is inside Detect or reads the pointer.
C3_AudioThreadOnly ==
    /\ inputDevice.isRunning => uiPc \notin {"warmupDetect", "stabilizerInit"}
    /\ ~(uiPc = "warmupDetect" /\ audioPc = "detect")
    /\ ~(uiPc = "stabilizerInit" /\ audioPc = "stabilize")

\* C4: after construction the processing buffer keeps the configured size,
\* whatever length the callbacks deliver.
C4_BufferSizeFixed ==
    uiPc # "construct" => Len(processingBuffer) = config.bufferSize

C6_SingleWriter ==
    [][publishVars' # publishVars =>
          (StoreFrequency \/ StoreConfidence \/ StoreDetected \/ StoreNotDetected)]_vars

\* values are published while the consumer reads, after a device switch, a
\* feedback update and an output callback
C6_Witness ==
    /\ pitchDetected
    /\ latestFrequency > 0
    /\ uiPc = "getLatestPitch"
    /\ switchResult
    /\ referenceEnabled
    /\ outputBuffer # <<>>

C8_InvalidConfigNeverStreams ==
    (inputDevice.isRunning \/ audioPc # "idle" \/ callbacks > 0) => IsValidConfig(config)

\* C10: the level the meter publishes is at most 1.0.
C10_LevelInUnitRange ==
    0 <= currentInputLevel /\ currentInputLevel <= 100


\* C11: the first Update after construction or Reset bootstraps the stabilizer:
\* with exactly one sample fed since then, GetStabilized returns that sample's
\* frequency for every variant and configuration, and for the EMA and the
\* median filter also its confidence.
C11_FirstUpdateBootstraps ==
    Len(fed) = 1 =>
        /\ GetStabilized(stab).frequency = fed[1].frequency
        /\ stab.type \in {"EMA", "Median"} =>
               GetStabilized(stab).confidence = fed[1].confidence

\* an EMA that was updated, reset and updated once more
C11_Witness ==
    /\ stab # NullStabilizer
    /\ stab.type = "EMA"
    /\ stab.alpha = 30
    /\ stabSteps = 3
    /\ Len(fed) = 1
    /\ GetStabilized(stab).frequency = 2000

\* C12: after k Updates since the most recent Reset (or construction) the
\* window of a MedianFilter of size N holds exactly the last min(k, N) raw
\* samples, in arrival order, the oldest evicted first; it never holds more
\* than N.
C12_WindowIsLastSamples ==
    (stab # NullStabilizer /\ stab.type = "Median") =>
        LET k == Len(fed)
            n == Min(k, stab.windowSize)
        IN /\ Len(stab.window) = n
           /\ Len(stab.window) <= stab.windowSize
           /\ \A i \in 1..n :
                 /\ stab.window[i].frequency = fed[k - n + i].frequency
                 /\ stab.window[i].confidence = fed[k - n + i].confidence

\* a window of two that has evicted its oldest sample, which differed from
\* the ones kept
C12_Witness ==
    /\ stab # NullStabilizer
    /\ stab.type = "Median"
    /\ stab.windowSize = 2
    /\ Len(fed) = 3
    /\ fed[1].frequency = 2000
    /\ fed[2].frequency = 110
    /\ fed[3].frequency = 440

\* C13: with at least one sample in its window, full or not, a MedianFilter
\* returns the median frequency of the window: the k-th smallest for an odd
\* count 2k-1, the average of the k-th and (k+1)-th smallest for an even
\* count 2k; and with three or more samples, the result lies within the
\* range of the samples that remain when any one of them is set aside.
C13_MedianOfWindow ==
    (stab # NullStabilizer /\ stab.type = "Median" /\ stab.window # <<>>) =>
        LET w == stab.window
            n == Len(w)
            f == GetStabilized(stab).frequency
            Below(m) == Cardinality({i \in 1..n : w[i].frequency < m})
            UpTo(m) == Cardinality({i \in 1..n : w[i].frequency <= m})
            Kth(k) == CHOOSE m \in {w[i].frequency : i \in 1..n} :
                          Below(m) < k /\ k <= UpTo(m)
        IN /\ n % 2 = 1 => f = Kth((n + 1) \div 2)
           /\ n % 2 = 0 => f = (Kth(n \div 2) + Kth(n \div 2 + 1)) \div 2
           /\ n >= 3 =>
                 \A j \in 1..n :
                    /\ \E i \in 1..n \ {j} : w[i].frequency <= f
                    /\ \E i \in 1..n \ {j} : f <= w[i].frequency

\* a window of four, not in order, whose two middle samples are averaged
C13_Witness ==
    /\ stab # NullStabilizer
    /\ stab.type = "Median"
    /\ Len(stab.window) = 4
    /\ stab.window[1].frequency = 2000
    /\ stab.window[2].frequency = 110
    /\ GetStabilized(stab).frequency = 275

\* C14: Reset returns a stabilizer to the state of a fresh instance of the
\* same configuration: right after it GetStabilized returns {0, 0}, after
\* every sequence of Updates that follows the results are those of an
\* instance constructed at the moment of the Reset and fed the same
\* samples, and a second Reset changes nothing.
C14_ResetIsFresh ==
    stab # NullStabilizer =>
        /\ GetStabilized(stab) = GetStabilized(fresh)
        /\ fed = <<>> => GetStabilized(stab) = [frequency |-> 0, confidence |-> 0]
        /\ StabilizerUpdate(stab, PitchResult(440, 60)) = StabilizerUpdate(fresh, PitchResult(440, 60))
        /\ StabilizerReset(StabilizerReset(stab)) = StabilizerReset(stab)
        /\ StabilizerReset(stab) = NewStabilizer(stab.type, stab.alpha, stab.windowSize)

\* a hybrid stabilizer that was updated, reset and updated twice
C14_Witness ==
    /\ stab # NullStabilizer
    /\ stab.type = "Hybrid"
    /\ stab.windowSize = 3
    /\ stabSteps = 4
    /\ Len(fed) = 2
    /\ fed[1].frequency = 110
    /\ fed[2].frequency = 2000

\* C15: once a stabilizer has received an Update since its last Reset, the
\* frequency it returns lies between the smallest and the largest raw
\* frequency fed since that Reset; and the frequency the layer publishes,
\* once a detected frame has been published, lies between the smallest and
\* the largest raw frequency the detector has produced so far.
C15_StabilizedWithinRawRange ==
    /\ (stab # NullStabilizer /\ fed # <<>>) =>
          LET f == GetStabilized(stab).frequency
          IN /\ \E i \in 1..Len(fed) : fed[i].frequency <= f
             /\ \E i \in 1..Len(fed) : f <= fed[i].frequency
    /\ latestFrequency # 0 =>
          /\ \E raw \in rawSeen : raw <= latestFrequency
          /\ \E raw \in rawSeen : latestFrequency <= raw

\* a hybrid stabilizer strictly between the two frequencies it was fed
C15_Witness ==
    /\ stab # NullStabilizer
    /\ stab.type = "Hybrid"
    /\ Len(fed) = 2
    /\ fed[1].frequency = 110
    /\ fed[2].frequency = 2000
    /\ GetStabilized(stab).frequency > 110
    /\ GetStabilized(stab).frequency < 2000

\* C16: FindClosestString returns nullopt in Chromatic mode and when no string
\* target is within toleranceCents of the frequency; otherwise it returns an
\* index in 0..5 whose target deviates from the frequency by less than
\* toleranceCents and by no more than any other string's target.
C16_ClosestStringWithinTolerance ==
    tuningCall.function = "FindClosestString" =>
        LET c == tuningCall
            targets == GetPreset(c.mode, c.referencePitch).targetFrequencies
            Deviation(i) == Abs(c.frequency - targets[i + 1])
            within == {i \in 0..5 : Deviation(i) < c.toleranceCents}
        IN IF c.mode = "Chromatic" \/ within = {}
           THEN c.result = Nullopt
           ELSE /\ c.result.hasValue
                /\ c.result.value \in within
                /\ \A j \in 0..5 : Deviation(c.result.value) <= Deviation(j)

\* a frequency halfway between the 6th and the 5th string with a bound wide
\* enough for both: the lower string is returned
C16_Witness ==
    /\ tuningCall.function = "FindClosestString"
    /\ tuningCall.mode = "Standard"
    /\ tuningCall.frequency = -2650
    /\ tuningCall.referencePitch = 0
    /\ tuningCall.toleranceCents = 300
    /\ tuningCall.result = Some(0)

\* C17: GetStringName returns "Unknown String" for an index outside 0..5; for
\* an index i in 0..5 the label is the string number 6 - i with its ordinal
\* suffix (6th, 5th, 4th, 3rd, 2nd, 1st) followed by " String", and by the
\* note name in parentheses when the mode defines one.
C17_StringNameOrdinal ==
    tuningCall.function = "GetStringName" =>
        LET c == tuningCall
            Ordinal(n) == CASE n = 1 -> "1st" [] n = 2 -> "2nd" [] n = 3 -> "3rd"
                            [] n = 4 -> "4th" [] n = 5 -> "5th" [] n = 6 -> "6th"
            note == GetPreset(c.mode, c.referencePitch).noteNames[c.stringIndex + 1]
        IN IF c.stringIndex \notin 0..5
           THEN c.result = "Unknown String"
           ELSE c.result = Ordinal(6 - c.stringIndex) \o " String"
                             \o (IF note = "" THEN "" ELSE " (" \o note \o ")")

\* C18: Config::Load never throws; it returns the default configuration when
\* the file is missing, cannot be opened, does not parse, does not
\* deserialize (a required key is absent) or holds a version other than 1,
\* and otherwise the configuration the document describes: the window and
\* tuning members and the version as written, each audio key as written or
\* its default when absent.
C18_LoadNeverThrows ==
    loaded.called =>
        /\ ~loaded.result.threw
        /\ LET c == loaded.result.value
               d == file.document
               complete == /\ file.kind = "json"
                           /\ ConfigJsonKeys \subseteq DOMAIN d
                           /\ WindowJsonKeys \subseteq DOMAIN d.window
                           /\ TuningJsonKeys \subseteq DOMAIN d.tuning
                           /\ d.version = 1
           IN IF ~complete THEN c = GetDefault
              ELSE /\ c.version = 1
                   /\ \A k \in WindowJsonKeys : c.window[k] = d.window[k]
                   /\ \A k \in TuningJsonKeys : c.tuning[k] = d.tuning[k]
                   /\ \A k \in AudioJsonKeys :
                         c.audio[k] = IF k \in DOMAIN d.audio THEN d.audio[k]
                                      ELSE AudioConfigDefaults[k]

\* a document without its tuning part was loaded
C18_Witness ==
    /\ loaded.called
    /\ file.kind = "json"
    /\ "tuning" \notin DOMAIN file.document
    /\ loaded.result = Returned(GetDefault)

\* C19: a Config of version 1 that Save wrote to the file is returned by the
\* following Load equal in every field of window, audio, tuning and version.
C19_SaveLoadRoundTrip ==
    (loaded.called /\ savedConfig.saved /\ savedConfig.config.version = 1) =>
        /\ ~loaded.result.threw
        /\ loaded.result.value = savedConfig.config

\* C20: drone mode and polyphonic mode are mutually exclusive: starting from
\* a configuration that does not enable both, after any sequence of clicks on
\* the two check boxes and presses of D, P and M the configuration never has
\* both enabled, and neither does the layer once UpdateAudioFeedback has
\* returned.
C20_ModesMutuallyExclusive ==
    /\ ~(appAudio.enableDroneMode /\ appAudio.enablePolyphonicMode)
    /\ ~(droneEnabled /\ polyphonicEnabled)

\* polyphonic mode on with the chord of the standard tuning, drone mode off
C20_Witness ==
    /\ appStarted
    /\ appAudio.enablePolyphonicMode
    /\ polyphonicEnabled
    /\ ~droneEnabled
    /\ polyphonicGenerator.frequencies = GetPreset("Standard", 0).targetFrequencies
\* C21: the UI thread's UpdateAudioFeedback and SetPolyphonicFrequencies never
\* write a generator that an output callback in progress is using: no call
\* is an unsynchronized write to the reference or the polyphonic generator.
C21_NoUnsynchronizedGeneratorWrite == ~mixing.raced

\* C22: the fields of a snapshot GetLatestPitch returns were published in the
\* same cycle or in two consecutive cycles.  Cycle 0 is construction; under
\* SpecSnapshot cycle c publishes CycleOutputs[c], so a returned frequency and
\* confidence name their cycles.
C22_SnapshotWithinOneCycle ==
    LET CycleOf(field, v) ==
            IF \E c \in 1..Len(CycleOutputs) : CycleOutputs[c][field] = v
            THEN CHOOSE c \in 1..Len(CycleOutputs) : CycleOutputs[c][field] = v
            ELSE 0
    IN (uiPc = "getLatestPitch" /\ pendingLoads = {}) =>
          Abs(CycleOf("frequency", data.frequency)
              - CycleOf("confidence", data.confidence)) <= 1

\* C23: the buffer size the application gives the pipeline holds one and a
\* half periods of the lowest detectable frequency,
\* bufferSize >= 1.5 * sampleRate / minFrequency, for every configuration
\* Config::Load returns.
C23_BufferHoldsLowestPeriod ==
    loaded.called =>
        LET c == AudioLayerConfigOf(loaded.result.value)
        IN 2 * c.bufferSize * c.minFrequency >= 3 * c.sampleRate

\* C24: from every gain the keyboard and the slider can set, the Up Arrow
\* never decreases the input gain and the Down Arrow never increases it, and
\* after either key the layer's gain is the configuration's.
C24_ArrowsMonotonic ==
    [][/\ KeyUpArrow => (appAudio'.inputGain >= appAudio.inputGain
                          /\ inputGain' = appAudio'.inputGain)
       /\ KeyDownArrow => (appAudio'.inputGain <= appAudio.inputGain
                            /\ inputGain' = appAudio'.inputGain)]_vars

\* C25: on the first frame after Ctrl+, the "Tuner Settings" window is drawn
\* and on the first frame after Esc it is not, whatever gear clicks, key
\* presses and close-button clicks came before.
C25_ShortcutsOpenAndClose ==
    LET last == settings.events[Len(settings.events)]
    IN (settings.rendered /\ settings.events # <<>>) =>
          /\ last = "CtrlComma" => settings.drawn
          /\ last = "Escape" => ~settings.drawn

\* C28: while input monitoring stays enabled, the output callback mixes the
\* samples the input callback wrote, in order, each once and none skipped:
\* the mixed samples are numbers 1, 2, 3, ... and every sample written and
\* not yet mixed is what the ring offers the next output callback.  Both
\* positions stay inside the ring and the ring keeps its size.
C28_MonitoringInOrder ==
    LET size == Len(monitoringRingBuffer)
        available == IF monitoringWritePos >= monitoringReadPos
                     THEN monitoringWritePos - monitoringReadPos
                     ELSE size - monitoringReadPos + monitoringWritePos
    IN (uiPc = "ready" /\ size > 0) =>
          /\ ringLog.mixed = [k \in 1..Len(ringLog.mixed) |-> k]
          /\ available = ringLog.written - Len(ringLog.mixed)
          /\ monitoringWritePos \in 0..(size - 1)
          /\ monitoringReadPos \in 0..(size - 1)
          /\ size = kuBufferSafetyMultiplier * config.bufferSize

\* C26: an output callback mixes at most one tone source, the first enabled
\* of drone, chord, reference; the monitored input is mixed whatever the tone
\* source is; with every feedback flag disabled the buffer is all zeros
\* whatever it held before.
C26_OneToneByPriority ==
    [][(\E n \in OutputLens \ {0} : OutputCallback(n)) =>
          LET frames == Min(Len(outputBuffer') \div outputChannels,
                            Len(outputScratchBuffer))
              tones == {outputBuffer'[k].tone : k \in DOMAIN outputBuffer'} \ {"none"}
              monitored == {outputBuffer'[k].monitor : k \in DOMAIN outputBuffer'} \ {0}
              toned == outputChannels = 1 \/ frames > 0
          IN /\ droneEnabled => tones \subseteq {"drone"}
             /\ (~droneEnabled /\ polyphonicEnabled) => tones \subseteq {"chord"}
             /\ (~droneEnabled /\ ~polyphonicEnabled /\ referenceEnabled) =>
                    tones \subseteq {"reference"}
             /\ (~droneEnabled /\ ~polyphonicEnabled /\ ~referenceEnabled) => tones = {}
             /\ ((droneEnabled \/ polyphonicEnabled \/ referenceEnabled) /\ toned) =>
                    tones # {}
             /\ ~inputMonitoringEnabled => monitored = {}
             /\ (inputMonitoringEnabled /\ monitoringWritePos # monitoringReadPos
                    /\ frames > 0) =>
                    outputBuffer'[1].monitor =
                        monitoringRingBuffer[monitoringReadPos + 1] * monitoringVolume
             /\ (~droneEnabled /\ ~polyphonicEnabled /\ ~referenceEnabled
                    /\ ~inputMonitoringEnabled) =>
                    \A k \in DOMAIN outputBuffer' :
                        outputBuffer'[k] = [monitor |-> 0, tone |-> "none"]]_vars

\* the chord was mixed over monitored input with the reference tone enabled too
C26_Witness ==
    /\ outputBuffer # <<>>
    /\ outputBuffer[1].tone = "chord"
    /\ outputBuffer[1].monitor > 0
    /\ polyphonicEnabled
    /\ referenceEnabled
    /\ inputMonitoringEnabled

C29_ReportedDeviceIsRunning ==
    uiPc = "ready" =>
        /\ currentInputDeviceId # NoDevice =>
               (inputDevice.isOpen /\ inputDevice.isRunning)
        /\ switchResult =>
               (inputDevice.isRunning /\ currentInputDeviceId # NoDevice)

\* C30: whenever polyphonic mode is enabled, the six voice frequencies the
\* layer holds are the preset targets of the current tuning mode at the
\* current reference pitch.
C30_ChordFollowsTuning ==
    polyphonicEnabled =>
        polyphonicGenerator.frequencies =
            GetPreset(appTuning.mode, appTuning.referencePitch).targetFrequencies

====
